---- MODULE Spec2Model ----
(***************************************************************************)
(* Model of pc-app/connection_manager.py (class ConnectionManager): the     *)
(* TCP accept loop and handshake, the per-connection receive loop, the     *)
(* heartbeat loop, send_packet, disconnect_client, get_status,             *)
(* start_server / stop_server, and the discovery broadcast loop and        *)
(* response listeners, as threads that interleave at every access of       *)
(* shared state and at every blocking socket call.  self.lock is a         *)
(* threading.Lock: it is not reentrant.                                    *)
(*                                                                         *)
(* Granularity.  A block that runs under "with self.lock" and makes no     *)
(* blocking call is one step (the lock is taken and released inside the    *)
(* step, whose guard is lock = NoThread).  A block that makes a blocking   *)
(* call under the lock (send_packet) keeps the lock across steps.  Code    *)
(* outside the lock is cut at each read of a shared field.                 *)
(***************************************************************************)
EXTENDS Integers, Sequences, FiniteSets, TLC

\* ---------------------------------------------------------------- bounds
\* successful start_server calls in Spec (each launches an accept and a heartbeat
\* thread)
MaxStarts == 1
\* further successful start_server calls, after a stop_server, in SpecRestart
MaxRestarts == 1
\* TCP connections the accept loops take during a run
MaxPeers == 2
\* discover_devices calls that launch a response listener
MaxListeners == 2

Gens == 1..(MaxStarts + MaxRestarts)
Socks == 1..MaxPeers
Listeners == 1..MaxListeners

\* ---------------------------------------------------------------- threads
UI == <<"ui", 0>>
Acc(g) == <<"acc", g>>
Hb(g) == <<"hb", g>>
Rx(s) == <<"rx", s>>
Bc(g) == <<"bc", g>>
Dl(k) == <<"dl", k>>
AccThreads == {Acc(g) : g \in Gens}
HbThreads == {Hb(g) : g \in Gens}
RxThreads == {Rx(s) : s \in Socks}
BcThreads == {Bc(g) : g \in Gens}
DlThreads == {Dl(k) : k \in Listeners}
Threads ==
    {UI} \cup AccThreads \cup HbThreads \cup RxThreads \cup BcThreads \cup DlThreads
NoThread == <<"none", 0>>

\* ---------------------------------------------------------------- handshake replies
\* What the candidate peer answers to the handshake request.
DeviceNames == {"Pixel", ""}
ReplyKinds == {"timeout", "empty", "not_json", "other_type", "handshake_response"}
NoReply == [kind |-> "none", has_name |-> FALSE, device_name |-> ""]
Replies ==
    {[kind |-> k, has_name |-> FALSE, device_name |-> ""] : k \in ReplyKinds}
    \cup {[kind |-> "handshake_response", has_name |-> TRUE, device_name |-> n] :
            n \in DeviceNames}

VARIABLES
    server_running,     \* self.server_running
    server_socket,      \* self.server_socket: 0 (None) or the listener of start g
    discovery_socket,   \* self.discovery_socket: 0 (None) or the UDP socket of start g
    client_socket,      \* self.client_socket: 0 (None) or a peer socket
    client_address,     \* self.client_address: 0 (None) or the peer's address
    device_name,        \* self.device_name
    connected,          \* self.connected
    lock,               \* holder of self.lock, NoThread when free
    starts,             \* successful start_server calls so far
    lopen,              \* which sockets made by start_server are open: "tcp", "udp"
    sock,               \* per accepted connection: "unused", "open", "peer_gone", "closed"
    last_write,         \* what the step just taken wrote to a peer socket
    emitted,            \* per connection: how many status_changed it was given
    last_event,         \* the last status_changed emission
    pc,                 \* each thread's position
    ret,                \* where a thread's disconnect_client call returns to
    cand,               \* accept thread: the candidate socket of its handshake
    response,           \* accept thread: handle_client_connection's local response
    old_device_name,    \* disconnect_client's local old_device_name
    old_address,        \* whose name old_device_name holds (the session ended)
    ui_result,          \* what the step just taken returned to the UI caller
    last_read,          \* what the step just taken read from a peer socket
    status,             \* the dict the get_status call just made returned
    discovered,         \* what the step just taken gave to device_discovered
    packet_sequence,    \* ProtocolHandler.packet_sequence
    compression_enabled, \* ProtocolHandler.compression_enabled
    event_data,         \* the dict the last create_packet call was given
    packet,             \* the frame the last encode call returned (bytes)
    received,           \* the bytes last given to parse_packet
    result,             \* what that parse_packet call returned
    defect,             \* how received was made from a built frame, or by hand
    events,             \* batch_events: the argument events
    max_size,           \* batch_events: the argument max_size
    next_event,         \* batch_events: index of the next event of the for loop
    current_batch,      \* batch_events: the local current_batch
    current_size,       \* batch_events: the local current_size
    packets,            \* batch_events: the local packets, returned at the end
    active,             \* InputCapture.active
    control_active,     \* InputCapture.control_active
    input_event,        \* the input_event emission not yet delivered to its slot
    mouse_call,         \* the callback the mouse listener thread is inside
    switch_sent         \* the peer sockets a control_switch event was written to

vars == <<server_running, server_socket, discovery_socket, client_socket,
          client_address, device_name, connected, lock, starts, sock,
          last_write, emitted, last_event, pc, ret, cand, response,
          old_device_name, old_address, ui_result, lopen, last_read, status,
          discovered, packet_sequence, compression_enabled, event_data, packet, received,
          result, defect, events, max_size, next_event, current_batch,
          current_size, packets, active, control_active, input_event,
          mouse_call, switch_sent>>

session == <<client_socket, client_address, device_name, connected>>
listener == <<server_running, server_socket, discovery_socket, starts, lopen>>
hs_locals == <<cand, response>>
dc_locals == <<old_device_name, old_address>>
locals == <<hs_locals, dc_locals>>
signals == <<emitted, last_event>>
\* everything but the two observations of the step just taken
program == <<session, listener, lock, sock, signals, pc, ret, locals>>
\* the connection manager: program state and the observations of the step
manager == <<program, last_write, ui_result, last_read, status, discovered>>
\* the ProtocolHandler object, and what was last encoded and parsed with it
protocol_handler == <<packet_sequence, compression_enabled>>
codec_io == <<event_data, packet, received, result, defect>>
\* the frame of a running batch_events call
batching == <<events, max_size, next_event, current_batch, current_size, packets>>
\* the InputCapture object, its queued signal and its listener thread, and what
\* has come of its control_switch events
input_capture == <<active, control_active, input_event, mouse_call, switch_sent>>

\* ---------------------------------------------------------------- helpers
\* receive_json: None on timeout, on an empty read and on text that is not JSON
ReceiveJson(r) ==
    IF r.kind \in {"timeout", "empty", "not_json"} THEN NoReply ELSE r

\* mutant of HandshakeAccepted: the message type is not compared
HandshakeAcceptedAnyObject(resp) ==
    resp # NoReply

\* the test of handle_client_connection: response and response.get('type') == ...
HandshakeAccepted(resp) ==
    resp # NoReply /\ resp.kind = "handshake_response"

\* mutant of DeviceNameOf: no default for a reply without device_name
DeviceNameOfNoDefault(resp) ==
    resp.device_name

\* response.get('device_name', 'Unknown Device')
DeviceNameOf(resp) ==
    IF resp.has_name THEN resp.device_name ELSE "Unknown Device"

\* the socket object is open on this side (the peer may be gone)
HostOpen(s) == IF s = 0 THEN FALSE ELSE sock[s] \in {"open", "peer_gone"}
\* a write to s or a read of s raises: closed on this side, or the peer is gone
Broken(s) == IF s = 0 THEN TRUE ELSE sock[s] \in {"closed", "peer_gone"}

Unused == {s \in Socks : sock[s] = "unused"}
NextSock == CHOOSE s \in Unused : \A u \in Unused : s <= u

StatusEvent(c, n, s) == [connected |-> c, name |-> n, sock |-> s]
NoEvent == [connected |-> FALSE, name |-> "none", sock |-> 0]
Write(s, k) == [sock |-> s, kind |-> k]
NoWrite == [sock |-> 0, kind |-> "none"]
Returned(c, v) == [call |-> c, value |-> v]
NoReturn == [call |-> "none", value |-> "none"]
Read(s, k) == [sock |-> s, kind |-> k]
NoRead == [sock |-> 0, kind |-> "none"]
NoStatus ==
    [server_running |-> FALSE, connected |-> FALSE, device_name |-> "none",
     device_address |-> 0]
NoDevice == [count |-> 0, name |-> <<>>, ip |-> "", port |-> 0]
\* the step gives nothing to a reader, to a get_status caller or to device_discovered
NoObservation ==
    /\ last_read' = NoRead
    /\ status' = NoStatus
    /\ discovered' = NoDevice

\* A step of the connection manager: it has no reference to the protocol handler
\* or to the input capture object and touches neither.
ManagerStep == UNCHANGED <<protocol_handler, codec_io, batching, input_capture>>

\* s has been installed as self.client_socket at some time
Installed(s) ==
    \/ emitted[s].up > 0
    \/ \E t \in AccThreads : pc[t] = "hs_emit" /\ cand[t] = s

ManagerInit ==
    /\ server_running = FALSE
    /\ server_socket = 0
    /\ discovery_socket = 0
    /\ client_socket = 0
    /\ client_address = 0
    /\ device_name = ""
    /\ connected = FALSE
    /\ lock = NoThread
    /\ starts = 0
    /\ lopen = {}
    /\ sock = [s \in Socks |-> "unused"]
    /\ last_write = NoWrite
    /\ emitted = [s \in Socks |-> [up |-> 0, down |-> 0]]
    /\ last_event = NoEvent
    /\ pc = [t \in Threads |-> IF t = UI THEN "idle" ELSE "off"]
    /\ ret = [t \in Threads |-> "none"]
    /\ cand = [t \in AccThreads |-> 0]
    /\ response = [t \in AccThreads |-> NoReply]
    /\ old_device_name = [t \in Threads |-> ""]
    /\ old_address = [t \in Threads |-> 0]
    /\ ui_result = NoReturn
    /\ last_read = NoRead
    /\ status = NoStatus
    /\ discovered = NoDevice

\* no frame built, nothing parsed
NoPacket == <<>>
NoResult == [kind |-> "not_called", value |-> <<>>]
\* ProtocolHandler.__init__ (lines 44-47)
ProtocolInit ==
    /\ packet_sequence = 0
    /\ compression_enabled = TRUE
    /\ event_data = <<>>
    /\ packet = NoPacket
    /\ received = NoPacket
    /\ result = NoResult
    /\ defect = "none"

\* no batch_events call is running
BatchInit ==
    /\ events = <<>>
    /\ max_size = 0
    /\ next_event = 0
    /\ current_batch = <<>>
    /\ current_size = 0
    /\ packets = <<>>

\* no input_event emission is waiting for its slot
NoInput == <<>>
\* the mouse listener thread is in no callback
NoCall ==
    [kind |-> "none", x |-> 0, y |-> 0, button |-> "", pressed |-> FALSE, dx |-> 0,
     dy |-> 0]
\* InputCapture.__init__ (lines 14-36)
InputInit ==
    /\ active = FALSE
    /\ control_active = FALSE
    /\ input_event = NoInput
    /\ mouse_call = NoCall
    /\ switch_sent = {}

\* WiFiKeyControl.__init__ builds the three objects (main.py lines 41-43)
Init == ManagerInit /\ ProtocolInit /\ BatchInit /\ InputInit

\* ---------------------------------------------------------------- disconnect_client
\* The call: the caller moves to the lock acquisition of disconnect_client.
CallDisconnect(t, back) ==
    /\ pc' = [pc EXCEPT ![t] = "dc_lock"]
    /\ ret' = [ret EXCEPT ![t] = back]

\* mutant of DisconnectLocked: the address is left in place
DisconnectLockedKeepsAddress(t) ==
    /\ pc[t] = "dc_lock"
    /\ lock = NoThread
    /\ sock' = IF client_socket # 0
               THEN [sock EXCEPT ![client_socket] = "closed"]
               ELSE sock
    /\ client_socket' = 0
    /\ connected' = FALSE
    /\ old_device_name' = [old_device_name EXCEPT ![t] = device_name]
    /\ old_address' = [old_address EXCEPT ![t] = client_address]
    /\ device_name' = ""
    /\ pc' = [pc EXCEPT ![t] = "dc_emit"]
    /\ ui_result' = NoReturn
    /\ NoObservation
    /\ ManagerStep
    /\ last_write' = NoWrite
    /\ UNCHANGED <<client_address, listener, lock, signals, ret, hs_locals>>

\* lines 324-335: the critical section
DisconnectLocked(t) ==
    /\ pc[t] = "dc_lock"
    /\ lock = NoThread
    /\ sock' = IF client_socket # 0
               THEN [sock EXCEPT ![client_socket] = "closed"]
               ELSE sock
    /\ client_socket' = 0
    /\ connected' = FALSE
    /\ old_device_name' = [old_device_name EXCEPT ![t] = device_name]
    /\ old_address' = [old_address EXCEPT ![t] = client_address]
    /\ device_name' = ""
    /\ client_address' = 0
    /\ pc' = [pc EXCEPT ![t] = "dc_emit"]
    /\ ui_result' = NoReturn
    /\ NoObservation
    /\ ManagerStep
    /\ last_write' = NoWrite
    /\ UNCHANGED <<listener, lock, signals, ret, hs_locals>>

\* mutant of DisconnectEmit: the event is emitted whether or not a name was set
DisconnectEmitAlways(t) ==
    /\ pc[t] = "dc_emit"
    /\ last_event' = StatusEvent(FALSE, "", old_address[t])
    /\ emitted' = [s \in Socks |->
                     IF s = old_address[t]
                     THEN [emitted[s] EXCEPT !.down = @ + 1]
                     ELSE emitted[s]]
    /\ old_device_name' = [old_device_name EXCEPT ![t] = ""]
    /\ old_address' = [old_address EXCEPT ![t] = 0]
    /\ pc' = [pc EXCEPT ![t] = ret[t]]
    /\ ret' = [ret EXCEPT ![t] = "none"]
    /\ ui_result' = NoReturn
    /\ NoObservation
    /\ ManagerStep
    /\ last_write' = NoWrite
    /\ UNCHANGED <<session, listener, lock, sock, hs_locals>>

\* lines 337-339: the emission after the lock is released, and the return
DisconnectEmit(t) ==
    /\ pc[t] = "dc_emit"
    /\ IF old_device_name[t] # ""
       THEN /\ last_event' = StatusEvent(FALSE, "", old_address[t])
            /\ emitted' = [emitted EXCEPT ![old_address[t]].down = @ + 1]
       ELSE UNCHANGED signals
    /\ old_device_name' = [old_device_name EXCEPT ![t] = ""]
    /\ old_address' = [old_address EXCEPT ![t] = 0]
    /\ pc' = [pc EXCEPT ![t] = ret[t]]
    /\ ret' = [ret EXCEPT ![t] = "none"]
    /\ ui_result' = NoReturn
    /\ NoObservation
    /\ ManagerStep
    /\ last_write' = NoWrite
    /\ UNCHANGED <<session, listener, lock, sock, hs_locals>>

\* ---------------------------------------------------------------- start_server
\* lines 45-47: already running
StartServerRunning ==
    /\ pc[UI] = "idle"
    /\ lock = NoThread
    /\ server_running
    /\ ui_result' = Returned("start_server", "true")
    /\ NoObservation
    /\ ManagerStep
    /\ last_write' = NoWrite
    /\ UNCHANGED <<session, listener, lock, sock, signals, pc, ret,
                   locals>>

\* lines 52-82: both binds succeed; the loops are launched
StartServerBody ==
    /\ pc[UI] = "idle"
    /\ lock = NoThread
    /\ ~server_running
    /\ starts' = starts + 1
    /\ server_socket' = starts + 1
    /\ discovery_socket' = starts + 1
    /\ server_running' = TRUE
    /\ lopen' = {"tcp", "udp"}
    /\ pc' = [pc EXCEPT ![Acc(starts + 1)] = "acc_loop",
                        ![Bc(starts + 1)] = "bc_loop",
                        ![Hb(starts + 1)] = "hb_loop"]
    /\ ui_result' = Returned("start_server", "true")
    /\ NoObservation
    /\ ManagerStep
    /\ last_write' = NoWrite
    /\ UNCHANGED <<session, lock, sock, signals, ret, locals>>

StartServerOk ==
    /\ starts < MaxStarts
    /\ StartServerBody

\* the same call made again after a stop_server
RestartServerOk ==
    /\ starts < MaxStarts + MaxRestarts
    /\ StartServerBody

\* lines 54-64: the sockets start_server has made when the bind of the TCP
\* listener (line 56) or of the UDP discovery socket (line 63) raises
Acquired(failing) ==
    IF failing = "tcp" THEN {"tcp"} ELSE {"tcp", "udp"}

\* mutant of Cleanup: the discovery socket is forgotten
CleanupServerOnly(ss, ds, open) ==
    [server_socket |-> 0,
     discovery_socket |-> ds,
     lopen |-> open \ (IF ss # 0 THEN {"tcp"} ELSE {})]

\* cleanup (lines 101-112): each socket whose handle is set is closed and its
\* handle cleared
Cleanup(ss, ds, open) ==
    [server_socket |-> 0,
     discovery_socket |-> 0,
     lopen |-> open \ ((IF ss # 0 THEN {"tcp"} ELSE {})
                        \cup (IF ds # 0 THEN {"udp"} ELSE {}))]

\* lines 52-64 and 84-87: a bind raises with the lock held; cleanup is called and
\* False is returned.  The handle of a socket is assigned before its bind.
StartServerBindFails ==
    /\ pc[UI] = "idle"
    /\ lock = NoThread
    /\ ~server_running
    /\ \E failing \in {"tcp", "udp"} :
         LET made == Acquired(failing)
             after == Cleanup(starts + 1,
                              IF "udp" \in made THEN starts + 1 ELSE discovery_socket,
                              lopen \cup made)
         IN  /\ server_socket' = after.server_socket
             /\ discovery_socket' = after.discovery_socket
             /\ lopen' = after.lopen
    /\ ui_result' = Returned("start_server", "false")
    /\ NoObservation
    /\ ManagerStep
    /\ last_write' = NoWrite
    /\ UNCHANGED <<session, server_running, starts, lock, sock, signals, pc, ret, locals>>

\* ---------------------------------------------------------------- stop_server
\* lines 91-93: not running
StopServerIdle ==
    /\ pc[UI] = "idle"
    /\ lock = NoThread
    /\ ~server_running
    /\ ui_result' = NoReturn
    /\ NoObservation
    /\ ManagerStep
    /\ last_write' = NoWrite
    /\ UNCHANGED program

\* lines 91-98: the flag is cleared under the lock, then disconnect_client is called
StopServerLocked ==
    /\ pc[UI] = "idle"
    /\ lock = NoThread
    /\ server_running
    /\ server_running' = FALSE
    /\ CallDisconnect(UI, "stop_cleanup")
    /\ ui_result' = NoReturn
    /\ NoObservation
    /\ ManagerStep
    /\ last_write' = NoWrite
    /\ UNCHANGED <<session, server_socket, discovery_socket, starts, lopen, lock,
                   sock, signals, locals>>

\* line 99 with cleanup (101-112)
StopServerCleanup ==
    /\ pc[UI] = "stop_cleanup"
    /\ LET after == Cleanup(server_socket, discovery_socket, lopen)
       IN  /\ server_socket' = after.server_socket
           /\ discovery_socket' = after.discovery_socket
           /\ lopen' = after.lopen
    /\ pc' = [pc EXCEPT ![UI] = "idle"]
    /\ ui_result' = NoReturn
    /\ NoObservation
    /\ ManagerStep
    /\ last_write' = NoWrite
    /\ UNCHANGED <<session, server_running, starts, lock, sock, signals, ret, locals>>

\* ---------------------------------------------------------------- send_packet
\* mutant of NotConnected: the wrong flag is tested
NotConnectedWrongFlag == ~server_running

\* line 286: the test made under the lock
NotConnected == ~connected \/ client_socket = 0

\* lines 285-287: no session: return False
SendPacketRefused ==
    /\ pc[UI] = "idle"
    /\ lock = NoThread
    /\ NotConnected
    /\ ui_result' = Returned("send_packet", "false")
    /\ NoObservation
    /\ ManagerStep
    /\ last_write' = NoWrite
    /\ UNCHANGED <<session, listener, lock, sock, signals, pc, ret,
                   locals>>

\* lines 285-290: the lock is taken and kept for the write
SendPacketLocked ==
    /\ pc[UI] = "idle"
    /\ lock = NoThread
    /\ ~NotConnected
    /\ lock' = UI
    /\ pc' = [pc EXCEPT ![UI] = "sp_send"]
    /\ ui_result' = NoReturn
    /\ NoObservation
    /\ ManagerStep
    /\ last_write' = NoWrite
    /\ UNCHANGED <<session, listener, sock, signals, ret, locals>>

\* lines 290-291: the write succeeds; leaving the with block frees the lock
SendPacketWritten ==
    /\ pc[UI] = "sp_send"
    /\ HostOpen(client_socket)
    /\ last_write' = Write(client_socket, "packet")
    /\ lock' = NoThread
    /\ pc' = [pc EXCEPT ![UI] = "idle"]
    /\ ui_result' = Returned("send_packet", "true")
    /\ NoObservation
    /\ ManagerStep
    /\ UNCHANGED <<session, listener, sock, signals, ret, locals>>

\* lines 292-294: the write raises; disconnect_client is called inside the with
\* block, the lock still held by the caller
SendPacketFails ==
    /\ pc[UI] = "sp_send"
    /\ Broken(client_socket)
    /\ CallDisconnect(UI, "sp_return")
    /\ ui_result' = NoReturn
    /\ NoObservation
    /\ ManagerStep
    /\ last_write' = NoWrite
    /\ UNCHANGED <<session, listener, lock, sock, signals, locals>>

\* line 295: return False once disconnect_client has returned; leaving the with
\* block frees the lock
SendPacketReturn ==
    /\ pc[UI] = "sp_return"
    /\ lock' = NoThread
    /\ pc' = [pc EXCEPT ![UI] = "idle"]
    /\ ui_result' = Returned("send_packet", "false")
    /\ NoObservation
    /\ ManagerStep
    /\ last_write' = NoWrite
    /\ UNCHANGED <<session, listener, sock, signals, ret, locals>>

\* ---------------------------------------------------------------- get_status
\* mutant of StatusSnapshot: the address is not part of the critical section's read
StatusSnapshotStaleAddress ==
    [server_running |-> server_running,
     connected |-> connected,
     device_name |-> device_name,
     device_address |-> IF connected THEN 0 ELSE client_address]

\* lines 373-380: the dict built under the lock (the two ports are constants here)
StatusSnapshot ==
    [server_running |-> server_running,
     connected |-> connected,
     device_name |-> device_name,
     device_address |-> client_address]

\* get_status (lines 370-380), called by the status thread of main.py once a second
\* and by the UI: the lock is taken, the dict is built and returned
GetStatus ==
    /\ lock = NoThread
    /\ status' = StatusSnapshot
    /\ ui_result' = NoReturn
    /\ last_read' = NoRead
    /\ discovered' = NoDevice
    /\ last_write' = NoWrite
    /\ ManagerStep
    /\ UNCHANGED program

\* ---------------------------------------------------------------- accept_clients
\* line 116: the loop test fails
AcceptLoopExit(t) ==
    /\ pc[t] = "acc_loop"
    /\ ~server_running
    /\ pc' = [pc EXCEPT ![t] = "done"]
    /\ ui_result' = NoReturn
    /\ NoObservation
    /\ ManagerStep
    /\ last_write' = NoWrite
    /\ UNCHANGED <<session, listener, lock, sock, signals, ret,
                   locals>>

\* lines 118-122 and 135-140: accept() on whatever self.server_socket is now returns
\* a connection; handle_client_connection is called on this thread and writes the
\* handshake request (the result of send_json is not looked at)
AcceptConnection(t) ==
    /\ pc[t] = "acc_loop"
    /\ server_running
    /\ server_socket # 0
    /\ Unused # {}
    /\ sock' = [sock EXCEPT ![NextSock] = "open"]
    /\ last_write' = Write(NextSock, "handshake")
    /\ cand' = [cand EXCEPT ![t] = NextSock]
    /\ pc' = [pc EXCEPT ![t] = "hs_recv"]
    /\ ui_result' = NoReturn
    /\ NoObservation
    /\ ManagerStep
    /\ UNCHANGED <<session, listener, lock, signals, ret, response, dc_locals>>

\* lines 124-125: accept() times out after 1 s; the loop goes round
AcceptTimeout(t) ==
    /\ pc[t] = "acc_loop"
    /\ server_running
    /\ server_socket # 0
    /\ ui_result' = NoReturn
    /\ NoObservation
    /\ ManagerStep
    /\ last_write' = NoWrite
    /\ UNCHANGED program

\* lines 126-129: accept() raises something else; the loop is left
AcceptError(t) ==
    /\ pc[t] = "acc_loop"
    /\ server_running
    /\ pc' = [pc EXCEPT ![t] = "done"]
    /\ ui_result' = NoReturn
    /\ NoObservation
    /\ ManagerStep
    /\ last_write' = NoWrite
    /\ UNCHANGED <<session, listener, lock, sock, signals, ret,
                   locals>>

\* ---------------------------------------------------------------- handle_client_connection
\* lines 143-149 and 169-178: the reply r (or the 5 s timeout) arrives.  A reply
\* that is not accepted closes the candidate.  An accepted one reads
\* self.client_socket without the lock and calls disconnect_client if it is set.
HandshakeReply(t, r) ==
    /\ pc[t] = "hs_recv"
    /\ IF HandshakeAccepted(ReceiveJson(r))
       THEN /\ response' = [response EXCEPT ![t] = ReceiveJson(r)]
            /\ IF client_socket # 0
               THEN CallDisconnect(t, "hs_install")
               ELSE /\ pc' = [pc EXCEPT ![t] = "hs_install"]
                    /\ ret' = ret
            /\ UNCHANGED <<sock, cand>>
       ELSE /\ sock' = [sock EXCEPT ![cand[t]] = "closed"]
            /\ cand' = [cand EXCEPT ![t] = 0]
            /\ pc' = [pc EXCEPT ![t] = "acc_loop"]
            /\ UNCHANGED <<ret, response>>
    /\ ui_result' = NoReturn
    /\ NoObservation
    /\ ManagerStep
    /\ last_write' = NoWrite
    /\ UNCHANGED <<session, listener, lock, signals, dc_locals>>

\* lines 152-156: the new peer is installed under the lock
InstallClient(t) ==
    /\ pc[t] = "hs_install"
    /\ lock = NoThread
    /\ client_socket' = cand[t]
    /\ client_address' = cand[t]
    /\ device_name' = DeviceNameOf(response[t])
    /\ connected' = TRUE
    /\ pc' = [pc EXCEPT ![t] = "hs_emit"]
    /\ ui_result' = NoReturn
    /\ NoObservation
    /\ ManagerStep
    /\ last_write' = NoWrite
    /\ UNCHANGED <<listener, lock, sock, signals, ret, locals>>

\* lines 158-167: status_changed(True, device_name) is emitted and the receive
\* thread of this socket is started; the accept loop goes round
EmitConnected(t) ==
    /\ pc[t] = "hs_emit"
    /\ last_event' = StatusEvent(TRUE, DeviceNameOf(response[t]), cand[t])
    /\ emitted' = [emitted EXCEPT ![cand[t]].up = @ + 1]
    /\ pc' = [pc EXCEPT ![t] = "acc_loop", ![Rx(cand[t])] = "rx_loop"]
    /\ cand' = [cand EXCEPT ![t] = 0]
    /\ response' = [response EXCEPT ![t] = NoReply]
    /\ ui_result' = NoReturn
    /\ NoObservation
    /\ ManagerStep
    /\ last_write' = NoWrite
    /\ UNCHANGED <<session, listener, lock, sock, ret, dc_locals>>

\* ---------------------------------------------------------------- handle_client_data
\* line 182: the loop test, read without the lock
ReceiveLoopTest(s) ==
    /\ pc[Rx(s)] = "rx_loop"
    /\ IF server_running /\ connected
       THEN /\ pc' = [pc EXCEPT ![Rx(s)] = "rx_recv"]
            /\ ret' = ret
       ELSE CallDisconnect(Rx(s), "done")
    /\ ui_result' = NoReturn
    /\ NoObservation
    /\ ManagerStep
    /\ last_write' = NoWrite
    /\ UNCHANGED <<session, listener, lock, sock, signals, locals>>

\* What a non-empty chunk read from the peer holds: a JSON object of type status or
\* control_return, another JSON object, JSON that is not an object (a list, a
\* number, a string, null), bytes that are not UTF-8, and UTF-8 text that is not JSON.
Chunks ==
    {"status", "control_return", "other_object", "non_object", "not_utf8", "not_json"}

\* data.decode('utf-8') (line 203) raises UnicodeDecodeError or returns the text
Utf8Decodes(m) == m # "not_utf8"

\* json.loads (line 203) on decoded text: a dict, another value, or JSONDecodeError
JsonLoads(m) ==
    CASE m \in {"status", "control_return", "other_object"} -> "dict"
      [] m = "non_object" -> "value"
      [] OTHER -> "JSONDecodeError"

\* mutant of ProcessClientMessage: only json.JSONDecodeError is handled
ProcessClientMessageJsonErrorsOnly(m) ==
    IF ~Utf8Decodes(m) THEN "raised"
    ELSE CASE JsonLoads(m) = "JSONDecodeError" -> "binary_logged"
           [] JsonLoads(m) = "value" -> "raised"
           [] m = "status" -> "status_logged"
           [] m = "control_return" -> "control_logged"
           [] OTHER -> "ignored"

\* process_client_message (lines 199-215): what the call does with chunk m.
\* UnicodeDecodeError and the AttributeError of message.get on a value that is not
\* a dict reach the handler of line 214; JSONDecodeError the one of line 211.
ProcessClientMessage(m) ==
    IF ~Utf8Decodes(m) THEN "error_logged"
    ELSE CASE JsonLoads(m) = "JSONDecodeError" -> "binary_logged"
           [] JsonLoads(m) = "value" -> "error_logged"
           [] m = "status" -> "status_logged"
           [] m = "control_return" -> "control_logged"
           [] OTHER -> "ignored"

\* lines 184-189: a non-empty read is given to process_client_message and the loop
\* goes round; an exception leaving process_client_message would reach the handler
\* of line 193 (break, then disconnect_client)
ReceiveData(s) ==
    /\ pc[Rx(s)] = "rx_recv"
    /\ sock[s] = "open"
    /\ \E m \in Chunks :
         /\ last_read' = Read(s, m)
         /\ IF ProcessClientMessage(m) = "raised"
            THEN CallDisconnect(Rx(s), "done")
            ELSE /\ pc' = [pc EXCEPT ![Rx(s)] = "rx_loop"]
                 /\ ret' = ret
    /\ ui_result' = NoReturn
    /\ status' = NoStatus
    /\ discovered' = NoDevice
    /\ last_write' = NoWrite
    /\ ManagerStep
    /\ UNCHANGED <<session, listener, lock, sock, signals, locals>>

\* lines 191-192: the read times out; the loop goes round
ReceiveTimeout(s) ==
    /\ pc[Rx(s)] = "rx_recv"
    /\ sock[s] = "open"
    /\ pc' = [pc EXCEPT ![Rx(s)] = "rx_loop"]
    /\ ui_result' = NoReturn
    /\ NoObservation
    /\ ManagerStep
    /\ last_write' = NoWrite
    /\ UNCHANGED <<session, listener, lock, sock, signals, ret,
                   locals>>

\* lines 185-186 and 197: a zero-length read (the peer closed); break, disconnect
ReceiveEof(s) ==
    /\ pc[Rx(s)] = "rx_recv"
    /\ sock[s] = "peer_gone"
    /\ CallDisconnect(Rx(s), "done")
    /\ ui_result' = NoReturn
    /\ NoObservation
    /\ ManagerStep
    /\ last_write' = NoWrite
    /\ UNCHANGED <<session, listener, lock, sock, signals, locals>>

\* lines 193-197: the read raises (the socket was closed on this side, or the
\* connection was reset); break, disconnect
ReceiveError(s) ==
    /\ pc[Rx(s)] = "rx_recv"
    /\ Broken(s)
    /\ CallDisconnect(Rx(s), "done")
    /\ ui_result' = NoReturn
    /\ NoObservation
    /\ ManagerStep
    /\ last_write' = NoWrite
    /\ UNCHANGED <<session, listener, lock, sock, signals, locals>>

\* ---------------------------------------------------------------- heartbeat_monitor
\* lines 343-344: the loop test, then the sleep
HeartbeatLoopTest(t) ==
    /\ pc[t] = "hb_loop"
    /\ pc' = [pc EXCEPT ![t] = IF server_running THEN "hb_check" ELSE "done"]
    /\ ui_result' = NoReturn
    /\ NoObservation
    /\ ManagerStep
    /\ last_write' = NoWrite
    /\ UNCHANGED <<session, listener, lock, sock, signals, ret,
                   locals>>

\* line 346: after the sleep, self.connected is read without the lock
HeartbeatCheck(t) ==
    /\ pc[t] = "hb_check"
    /\ pc' = [pc EXCEPT ![t] = IF connected THEN "hb_send" ELSE "hb_loop"]
    /\ ui_result' = NoReturn
    /\ NoObservation
    /\ ManagerStep
    /\ last_write' = NoWrite
    /\ UNCHANGED <<session, listener, lock, sock, signals, ret,
                   locals>>

\* lines 353 and 297-302: self.client_socket is read without the lock and the
\* heartbeat is written to it
HeartbeatSent(t) ==
    /\ pc[t] = "hb_send"
    /\ HostOpen(client_socket)
    /\ last_write' = Write(client_socket, "heartbeat")
    /\ pc' = [pc EXCEPT ![t] = "hb_loop"]
    /\ ui_result' = NoReturn
    /\ NoObservation
    /\ ManagerStep
    /\ UNCHANGED <<session, listener, lock, sock, signals, ret, locals>>

\* lines 353-354 and 303-305: send_json returns False (client_socket is None, or
\* the write raised); disconnect_client is called
HeartbeatFails(t) ==
    /\ pc[t] = "hb_send"
    /\ Broken(client_socket)
    /\ CallDisconnect(t, "hb_loop")
    /\ ui_result' = NoReturn
    /\ NoObservation
    /\ ManagerStep
    /\ last_write' = NoWrite
    /\ UNCHANGED <<session, listener, lock, sock, signals, locals>>

\* ---------------------------------------------------------------- broadcast_discovery
\* line 219: the loop test
BroadcastLoopTest(t) ==
    /\ pc[t] = "bc_loop"
    /\ pc' = [pc EXCEPT ![t] = IF server_running THEN "bc_send" ELSE "done"]
    /\ ui_result' = NoReturn
    /\ NoObservation
    /\ ManagerStep
    /\ last_write' = NoWrite
    /\ UNCHANGED <<session, listener, lock, sock, signals, ret, locals>>

\* lines 222-224 and 229-233: the broadcast is sent on whatever
\* self.discovery_socket is now; the wait that follows ends after ten sleeps or
\* when server_running is read as false, and the loop goes round
BroadcastSent(t) ==
    /\ pc[t] = "bc_send"
    /\ discovery_socket # 0
    /\ "udp" \in lopen
    /\ last_write' = Write(0, "discovery")
    /\ pc' = [pc EXCEPT ![t] = "bc_loop"]
    /\ ui_result' = NoReturn
    /\ NoObservation
    /\ ManagerStep
    /\ UNCHANGED <<session, listener, lock, sock, signals, ret, locals>>

\* lines 226-233: sendto raises (the handle is None, the socket is closed, the
\* network refuses the broadcast); the error is logged, the wait follows and the
\* loop goes round
BroadcastError(t) ==
    /\ pc[t] = "bc_send"
    /\ pc' = [pc EXCEPT ![t] = "bc_loop"]
    /\ ui_result' = NoReturn
    /\ NoObservation
    /\ ManagerStep
    /\ last_write' = NoWrite
    /\ UNCHANGED <<session, listener, lock, sock, signals, ret, locals>>

\* ---------------------------------------------------------------- discover_devices
\* lines 266-268: the server is not running; the call logs and returns
DiscoverDevicesRefused ==
    /\ pc[UI] = "idle"
    /\ ~server_running
    /\ ui_result' = Returned("discover_devices", "refused")
    /\ NoObservation
    /\ ManagerStep
    /\ last_write' = NoWrite
    /\ UNCHANGED program

IdleListeners == {k \in Listeners : pc[Dl(k)] = "off"}
NextListener == CHOOSE k \in IdleListeners : \A j \in IdleListeners : k <= j

\* lines 270-281: a response listener thread is started and one broadcast is sent
\* at once (a failure of that send is logged).  The lock is not taken.
DiscoverDevices ==
    /\ pc[UI] = "idle"
    /\ server_running
    /\ IdleListeners # {}
    /\ pc' = [pc EXCEPT ![Dl(NextListener)] = "dl_loop"]
    /\ \/ discovery_socket # 0 /\ "udp" \in lopen
          /\ last_write' = Write(0, "discovery")
       \/ last_write' = NoWrite
    /\ ui_result' = Returned("discover_devices", "started")
    /\ NoObservation
    /\ ManagerStep
    /\ UNCHANGED <<session, listener, lock, sock, signals, ret, locals>>

\* ---------------------------------------------------------------- listen_for_discovery_responses
\* the port the descriptor made up for a bare response carries (self.server_port)
ServerPort == 12346

\* Datagrams that reach the discovery socket: one that does not begin with
\* WIFIKEY_RESPONSE (the host's own WIFIKEY_DISCOVERY broadcast is one), and the
\* token followed by a JSON object, by nothing, by text that is not JSON, by bytes
\* that are not UTF-8, by JSON that is not an object.
DatagramKinds == {"no_token", "object", "empty", "not_json", "not_utf8", "non_object"}
Addrs == {"10.0.0.5", "10.0.0.9"}
Datagrams == [kind : DatagramKinds, addr : Addrs]

\* the object a well-formed response carries; its own ip entry need not be the
\* sender's
PayloadObject == [count |-> 1, name |-> <<"Phone">>, ip |-> "10.0.0.9", port |-> 5555]

\* data.startswith(self.DISCOVERY_RESPONSE), line 240
StartsWithToken(d) == d.kind # "no_token"

\* lines 249-253: the descriptor made up for a response without device info
BareDevice(addr) ==
    [count |-> 1, name |-> <<"Android Device (", addr, ")">>, ip |-> addr,
     port |-> ServerPort]

\* lines 240-255: what one datagram gives to device_discovered, and whether an
\* exception leaves the inner try.  Only json.JSONDecodeError is handled there:
\* the UnicodeDecodeError of decode and the TypeError of device_info['ip'] = ...
\* on a value that is not a dict go to the handler of line 259.
HandleDatagram(d) ==
    CASE ~StartsWithToken(d) -> [device |-> NoDevice, raised |-> FALSE]
      [] d.kind = "object" ->
           [device |-> [PayloadObject EXCEPT !.ip = d.addr], raised |-> FALSE]
      [] d.kind \in {"empty", "not_json"} ->
           [device |-> BareDevice(d.addr), raised |-> FALSE]
      [] OTHER -> [device |-> NoDevice, raised |-> TRUE]

\* line 237: the loop test
ListenerLoopTest(k) ==
    /\ pc[Dl(k)] = "dl_loop"
    /\ pc' = [pc EXCEPT ![Dl(k)] = IF server_running THEN "dl_recv" ELSE "done"]
    /\ ui_result' = NoReturn
    /\ NoObservation
    /\ ManagerStep
    /\ last_write' = NoWrite
    /\ UNCHANGED <<session, listener, lock, sock, signals, ret, locals>>

\* lines 239-255 and 259-262: recvfrom returns datagram d; an exception that
\* leaves the inner try is logged and the loop is left
ListenerDatagram(k, d) ==
    /\ pc[Dl(k)] = "dl_recv"
    /\ discovery_socket # 0
    /\ "udp" \in lopen
    /\ discovered' = HandleDatagram(d).device
    /\ pc' = [pc EXCEPT ![Dl(k)] =
                 IF HandleDatagram(d).raised THEN "done" ELSE "dl_loop"]
    /\ ui_result' = NoReturn
    /\ last_read' = NoRead
    /\ status' = NoStatus
    /\ last_write' = NoWrite
    /\ ManagerStep
    /\ UNCHANGED <<session, listener, lock, sock, signals, ret, locals>>

\* lines 257-258: recvfrom times out after 1 s; the loop goes round
ListenerTimeout(k) ==
    /\ pc[Dl(k)] = "dl_recv"
    /\ discovery_socket # 0
    /\ pc' = [pc EXCEPT ![Dl(k)] = "dl_loop"]
    /\ ui_result' = NoReturn
    /\ NoObservation
    /\ ManagerStep
    /\ last_write' = NoWrite
    /\ UNCHANGED <<session, listener, lock, sock, signals, ret, locals>>

\* lines 259-262: recvfrom raises something else (the handle is None or the
\* socket closed after cleanup, or the network reports an error); the loop is left
ListenerError(k) ==
    /\ pc[Dl(k)] = "dl_recv"
    /\ pc' = [pc EXCEPT ![Dl(k)] = "done"]
    /\ ui_result' = NoReturn
    /\ NoObservation
    /\ ManagerStep
    /\ last_write' = NoWrite
    /\ UNCHANGED <<session, listener, lock, sock, signals, ret, locals>>

\* ---------------------------------------------------------------- the peer
\* The connected device goes away (closes or resets its end of the connection).
PeerGone(s) ==
    /\ Installed(s)
    /\ sock[s] = "open"
    /\ sock' = [sock EXCEPT ![s] = "peer_gone"]
    /\ ui_result' = NoReturn
    /\ NoObservation
    /\ ManagerStep
    /\ last_write' = NoWrite
    /\ UNCHANGED <<session, listener, lock, signals, pc, ret, locals>>

\* ---------------------------------------------------------------- specification
\* SendPacketReturn is not a disjunct: no behaviour reaches pc[UI] = "sp_return"
\* (disconnect_client waits for the lock its caller holds, C4_SendFailureReturns).
Next ==
    \/ StartServerRunning
    \/ StartServerOk
    \/ StartServerBindFails
    \/ StopServerIdle
    \/ StopServerLocked
    \/ StopServerCleanup
    \/ SendPacketRefused
    \/ SendPacketLocked
    \/ SendPacketWritten
    \/ SendPacketFails
    \/ \E t \in Threads : DisconnectLocked(t)
    \/ \E t \in Threads : DisconnectEmit(t)
    \/ \E t \in AccThreads : AcceptLoopExit(t)
    \/ \E t \in AccThreads : AcceptConnection(t)
    \/ \E t \in AccThreads : AcceptTimeout(t)
    \/ \E t \in AccThreads : AcceptError(t)
    \/ \E t \in AccThreads : \E r \in Replies : HandshakeReply(t, r)
    \/ \E t \in AccThreads : InstallClient(t)
    \/ \E t \in AccThreads : EmitConnected(t)
    \/ \E s \in Socks : ReceiveLoopTest(s)
    \/ \E s \in Socks : ReceiveData(s)
    \/ \E s \in Socks : ReceiveTimeout(s)
    \/ \E s \in Socks : ReceiveEof(s)
    \/ \E s \in Socks : ReceiveError(s)
    \/ \E t \in HbThreads : HeartbeatLoopTest(t)
    \/ \E t \in HbThreads : HeartbeatCheck(t)
    \/ \E t \in HbThreads : HeartbeatSent(t)
    \/ \E t \in HbThreads : HeartbeatFails(t)
    \/ \E s \in Socks : PeerGone(s)

Spec == Init /\ [][Next]_vars

\* The behaviours in which the UI stops and starts the server again while the
\* threads of the earlier start are still running.  Only the steps of start_server,
\* stop_server, the accept loops, the handshakes and the receive loops are taken
\* (the heartbeat threads stay in their sleep, no packet is sent, no peer goes away).
NextRestart ==
    \/ RestartServerOk
    \/ StopServerLocked
    \/ StopServerCleanup
    \/ \E t \in Threads : DisconnectLocked(t)
    \/ \E t \in Threads : DisconnectEmit(t)
    \/ \E t \in AccThreads : AcceptLoopExit(t)
    \/ \E t \in AccThreads : AcceptConnection(t)
    \/ \E t \in AccThreads : \E r \in Replies : HandshakeReply(t, r)
    \/ \E t \in AccThreads : InstallClient(t)
    \/ \E t \in AccThreads : EmitConnected(t)
    \/ \E s \in Socks : ReceiveLoopTest(s)
    \/ \E s \in Socks : ReceiveTimeout(s)
    \/ \E s \in Socks : ReceiveError(s)

SpecRestart == Init /\ [][NextRestart]_vars

\* Spec with the status queries of main.py's status thread.
NextStatus ==
    \/ Next
    \/ GetStatus

SpecStatus == Init /\ [][NextStatus]_vars

\* The behaviours of the discovery side: the server is started and stopped, the
\* broadcast loop runs, discover_devices launches response listeners, and the
\* accept loop waits for connections that do not come.
NextDiscovery ==
    \/ StartServerOk
    \/ StopServerLocked
    \/ StopServerCleanup
    \/ DisconnectLocked(UI)
    \/ DisconnectEmit(UI)
    \/ DiscoverDevicesRefused
    \/ DiscoverDevices
    \/ \E t \in AccThreads : AcceptLoopExit(t)
    \/ \E t \in AccThreads : AcceptTimeout(t)
    \/ \E t \in AccThreads : AcceptError(t)
    \/ \E t \in BcThreads : BroadcastLoopTest(t)
    \/ \E t \in BcThreads : BroadcastSent(t)
    \/ \E t \in BcThreads : BroadcastError(t)
    \/ \E k \in Listeners : ListenerLoopTest(k)
    \/ \E k \in Listeners : \E d \in Datagrams : ListenerDatagram(k, d)
    \/ \E k \in Listeners : ListenerTimeout(k)
    \/ \E k \in Listeners : ListenerError(k)

SpecDiscovery == Init /\ [][NextDiscovery]_vars

\* ---------------------------------------------------------------- fairness
\* The steps of one running thread.  Python schedules every runnable thread, and
\* every blocking call made here is bounded by a timeout, so a thread that can take
\* a step does take one.
AcceptThreadStep(t) ==
    \/ AcceptLoopExit(t) \/ AcceptConnection(t) \/ AcceptTimeout(t)
    \/ (\E r \in Replies : HandshakeReply(t, r))
    \/ InstallClient(t) \/ EmitConnected(t)
    \/ DisconnectLocked(t) \/ DisconnectEmit(t)

ReceiveThreadStep(s) ==
    \/ ReceiveLoopTest(s) \/ ReceiveData(s) \/ ReceiveTimeout(s)
    \/ ReceiveEof(s) \/ ReceiveError(s)
    \/ DisconnectLocked(Rx(s)) \/ DisconnectEmit(Rx(s))

HeartbeatThreadStep(t) ==
    \/ HeartbeatLoopTest(t) \/ HeartbeatCheck(t)
    \/ HeartbeatSent(t) \/ HeartbeatFails(t)
    \/ DisconnectLocked(t) \/ DisconnectEmit(t)

\* the steps that finish a call the UI thread has begun
UICallStep ==
    \/ StopServerCleanup
    \/ SendPacketWritten \/ SendPacketFails
    \/ DisconnectLocked(UI) \/ DisconnectEmit(UI)

FairSpec ==
    /\ Spec
    /\ \A t \in AccThreads : WF_vars(AcceptThreadStep(t))
    /\ \A s \in Socks : WF_vars(ReceiveThreadStep(s))
    /\ \A t \in HbThreads : WF_vars(HeartbeatThreadStep(t))
    /\ WF_vars(UICallStep)

\* ---------------------------------------------------------------- shutdown
\* The behaviours in which one peer connects and discover_devices is called once:
\* every kind of loop runs, the server is started and stopped once.
AcceptFirstConnection(t) ==
    /\ Unused = Socks
    /\ AcceptConnection(t)

DiscoverDevicesOnce ==
    /\ IdleListeners = Listeners
    /\ DiscoverDevices

NextShutdown ==
    \/ StartServerOk
    \/ StopServerLocked
    \/ StopServerCleanup
    \/ SendPacketLocked
    \/ SendPacketWritten
    \/ SendPacketFails
    \/ DiscoverDevicesOnce
    \/ \E t \in Threads : DisconnectLocked(t)
    \/ \E t \in Threads : DisconnectEmit(t)
    \/ \E t \in AccThreads : AcceptLoopExit(t)
    \/ \E t \in AccThreads : AcceptFirstConnection(t)
    \/ \E t \in AccThreads : AcceptTimeout(t)
    \/ \E t \in AccThreads : \E r \in Replies : HandshakeReply(t, r)
    \/ \E t \in AccThreads : InstallClient(t)
    \/ \E t \in AccThreads : EmitConnected(t)
    \/ \E s \in Socks : ReceiveLoopTest(s)
    \/ \E s \in Socks : ReceiveData(s)
    \/ \E s \in Socks : ReceiveTimeout(s)
    \/ \E s \in Socks : ReceiveEof(s)
    \/ \E s \in Socks : ReceiveError(s)
    \/ \E t \in HbThreads : HeartbeatLoopTest(t)
    \/ \E t \in HbThreads : HeartbeatCheck(t)
    \/ \E t \in HbThreads : HeartbeatSent(t)
    \/ \E t \in HbThreads : HeartbeatFails(t)
    \/ \E t \in BcThreads : BroadcastLoopTest(t)
    \/ \E t \in BcThreads : BroadcastSent(t)
    \/ \E t \in BcThreads : BroadcastError(t)
    \/ \E k \in Listeners : ListenerLoopTest(k)
    \/ \E k \in Listeners : \E d \in Datagrams : ListenerDatagram(k, d)
    \/ \E k \in Listeners : ListenerTimeout(k)
    \/ \E k \in Listeners : ListenerError(k)
    \/ \E s \in Socks : PeerGone(s)

SpecShutdown == Init /\ [][NextShutdown]_vars

\* the steps the accept thread takes by itself (a peer that connects is not one)
ShutdownAcceptStep(t) ==
    \/ AcceptLoopExit(t) \/ AcceptTimeout(t)
    \/ (\E r \in Replies : HandshakeReply(t, r))
    \/ InstallClient(t) \/ EmitConnected(t)
    \/ DisconnectLocked(t) \/ DisconnectEmit(t)

BroadcastThreadStep(t) ==
    BroadcastLoopTest(t) \/ BroadcastSent(t) \/ BroadcastError(t)

\* a datagram that arrives is not a step the listener takes by itself
ListenerThreadStep(k) ==
    ListenerLoopTest(k) \/ ListenerTimeout(k) \/ ListenerError(k)

FairSpecShutdown ==
    /\ SpecShutdown
    /\ \A t \in AccThreads : WF_vars(ShutdownAcceptStep(t))
    /\ \A s \in Socks : WF_vars(ReceiveThreadStep(s))
    /\ \A t \in HbThreads : WF_vars(HeartbeatThreadStep(t))
    /\ \A t \in BcThreads : WF_vars(BroadcastThreadStep(t))
    /\ \A k \in Listeners : WF_vars(ListenerThreadStep(k))
    /\ WF_vars(UICallStep)

\* ================================================================ protocol.py
\* Frames are sequences of bytes, as in the code.  A call that raises returns
\* Raised, which no byte string equals.
Byte == 0..255
Raised == <<-1>>

\* a ^ b, a & b and a | b on non-negative integers
RECURSIVE BitXor(_, _)
BitXor(a, b) ==
    IF a = 0 THEN b
    ELSE IF b = 0 THEN a
    ELSE ((a + b) % 2) + 2 * BitXor(a \div 2, b \div 2)
RECURSIVE BitAnd(_, _)
BitAnd(a, b) ==
    IF a = 0 \/ b = 0 THEN 0
    ELSE (a % 2) * (b % 2) + 2 * BitAnd(a \div 2, b \div 2)
BitOr(a, b) == a + b - BitAnd(a, b)

RECURSIVE Concat(_)
Concat(ss) == IF ss = <<>> THEN <<>> ELSE Head(ss) \o Concat(Tail(ss))

\* ---------------------------------------------------------------- struct
\* The format codes the handler uses, little-endian without padding ('<'):
\* H, I, Q and B are unsigned integers of 2, 4, 8 and 1 bytes, 16s is 16 bytes.
CodeSize(c) ==
    CASE c = "B" -> 1 [] c = "H" -> 2 [] c = "I" -> 4 [] c = "Q" -> 8
      [] c = "16s" -> 16
RECURSIVE CalcSize(_)
CalcSize(fmt) == IF fmt = <<>> THEN 0 ELSE CodeSize(Head(fmt)) + CalcSize(Tail(fmt))

RECURSIVE LittleEndian(_, _)
LittleEndian(v, n) ==
    IF n = 0 THEN <<>> ELSE <<v % 256>> \o LittleEndian(v \div 256, n - 1)
RECURSIVE FromLittleEndian(_)
FromLittleEndian(b) ==
    IF b = <<>> THEN 0 ELSE Head(b) + 256 * FromLittleEndian(Tail(b))

\* one value fits its code: an integer in the range of the code (16s takes any
\* byte string; the handler gives it 16 bytes)
RECURSIVE Fits(_, _)
Fits(v, n) == IF n = 0 THEN v = 0 ELSE Fits(v \div 256, n - 1)
Packable(c, v) ==
    IF c = "16s" THEN Len(v) <= 16
    ELSE v >= 0 /\ Fits(v, CodeSize(c))
PackOne(c, v) ==
    IF c = "16s" THEN v \o [i \in 1..(16 - Len(v)) |-> 0]
    ELSE LittleEndian(v, CodeSize(c))

\* struct.pack(fmt, *values): struct.error when the number of values is not the
\* number of codes, or when a value does not fit its code
StructPack(fmt, values) ==
    IF Len(fmt) # Len(values) THEN Raised
    ELSE IF \E i \in 1..Len(fmt) : ~Packable(fmt[i], values[i]) THEN Raised
    ELSE Concat([i \in 1..Len(fmt) |-> PackOne(fmt[i], values[i])])

\* offset of field i in the packed bytes
RECURSIVE FieldStart(_, _)
FieldStart(fmt, i) ==
    IF i = 1 THEN 1 ELSE FieldStart(fmt, i - 1) + CodeSize(fmt[i - 1])
UnpackOne(c, b) == IF c = "16s" THEN b ELSE FromLittleEndian(b)
\* struct.unpack(fmt, data): struct.error unless data has exactly the size of fmt
StructUnpack(fmt, data) ==
    IF Len(data) # CalcSize(fmt) THEN Raised
    ELSE [i \in 1..Len(fmt) |->
            UnpackOne(fmt[i],
                      SubSeq(data, FieldStart(fmt, i),
                             FieldStart(fmt, i) + CodeSize(fmt[i]) - 1))]
\* a, b, ... = struct.unpack(...): ValueError unless there are as many values as
\* names
UnpackInto(names, fmt, data) ==
    IF StructUnpack(fmt, data) = Raised THEN Raised
    ELSE IF Len(fmt) # names THEN Raised
    ELSE StructUnpack(fmt, data)

\* ---------------------------------------------------------------- checksum
HEADER_MAGIC == 43707
CrcInit == 65535
CrcPoly == 40961

\* lines 231-235: eight shifts, the polynomial folded in when the low bit is set
RECURSIVE CrcShift(_, _)
CrcShift(crc, n) ==
    IF n = 0 THEN crc
    ELSE CrcShift(IF crc % 2 = 1 THEN BitXor(crc \div 2, CrcPoly) ELSE crc \div 2,
                  n - 1)
\* lines 229-235 over data[lo..hi], from the register value crc.  The range is
\* halved and the left half is evaluated before the right one is entered, which
\* keeps the evaluation shallow.
RECURSIVE CrcOver(_, _, _, _)
CrcOver(data, lo, hi, crc) ==
    IF lo > hi THEN crc
    ELSE IF lo = hi THEN CrcShift(BitXor(crc, data[lo]), 8)
    ELSE LET left == CrcOver(data, lo, (lo + hi) \div 2, crc)
         IN IF left \in Nat THEN CrcOver(data, (lo + hi) \div 2 + 1, hi, left)
            ELSE left
\* calculate_checksum (lines 226-236)
CalculateChecksum(data) == CrcOver(data, 1, Len(data), CrcInit)

\* packet[-2:] and packet[:-2]
LastTwo(b) == SubSeq(b, Len(b) - 1, Len(b))
ButLastTwo(b) == SubSeq(b, 1, Len(b) - 2)

\* mutant of VerifyChecksum: only the low byte of the checksum is compared
VerifyChecksumLowByte(b) ==
    IF Len(b) < 2 THEN FALSE
    ELSE b[Len(b) - 1] = CalculateChecksum(ButLastTwo(b)) % 256

\* verify_checksum (lines 238-245)
VerifyChecksum(b) ==
    IF Len(b) < 2 THEN FALSE
    ELSE FromLittleEndian(LastTwo(b)) = CalculateChecksum(ButLastTwo(b))

\* ---------------------------------------------------------------- text
\* The strings of the model and their UTF-8 encoding (all are ASCII).  LongText
\* is a run of one letter, long enough to pass the compression threshold.
LongText == "aaaaaaaaaaaaaaaaaaaaaaaaaaaaaaaaaaaaaaaaaaaaaaaaaaaaaaaaaaaaaaaaaaaaaaaaaaaaaaaa"
Strings ==
    {"type", "x", "y", "timestamp", "button", "pressed", "key", "key_code",
     "dx", "dy", "edge", "data", "sequence", "modifiers", "mouse_move",
     "mouse_click", "key_press", "key_release", "mouse_scroll",
     "control_switch", "heartbeat", "MOUSE_MOVEMENT", "custom", "left",
     "right", "middle", "x1", "x2", "top", "bottom", "hotkey",
     "return_to_pc", "unknown", "a", "", LongText}
\* str.encode('utf-8')
Utf8(s) ==
    CASE s = "type" -> <<116, 121, 112, 101>>
      [] s = "x" -> <<120>>
      [] s = "y" -> <<121>>
      [] s = "timestamp" -> <<116, 105, 109, 101, 115, 116, 97, 109, 112>>
      [] s = "button" -> <<98, 117, 116, 116, 111, 110>>
      [] s = "pressed" -> <<112, 114, 101, 115, 115, 101, 100>>
      [] s = "key" -> <<107, 101, 121>>
      [] s = "key_code" -> <<107, 101, 121, 95, 99, 111, 100, 101>>
      [] s = "dx" -> <<100, 120>>
      [] s = "dy" -> <<100, 121>>
      [] s = "edge" -> <<101, 100, 103, 101>>
      [] s = "data" -> <<100, 97, 116, 97>>
      [] s = "sequence" -> <<115, 101, 113, 117, 101, 110, 99, 101>>
      [] s = "modifiers" -> <<109, 111, 100, 105, 102, 105, 101, 114, 115>>
      [] s = "mouse_move" -> <<109, 111, 117, 115, 101, 95, 109, 111, 118, 101>>
      [] s = "mouse_click" -> <<109, 111, 117, 115, 101, 95, 99, 108, 105, 99, 107>>
      [] s = "key_press" -> <<107, 101, 121, 95, 112, 114, 101, 115, 115>>
      [] s = "key_release" -> <<107, 101, 121, 95, 114, 101, 108, 101, 97, 115, 101>>
      [] s = "mouse_scroll" -> <<109, 111, 117, 115, 101, 95, 115, 99, 114, 111, 108, 108>>
      [] s = "control_switch" -> <<99, 111, 110, 116, 114, 111, 108, 95, 115, 119, 105, 116, 99, 104>>
      [] s = "heartbeat" -> <<104, 101, 97, 114, 116, 98, 101, 97, 116>>
      [] s = "MOUSE_MOVEMENT" -> <<77, 79, 85, 83, 69, 95, 77, 79, 86, 69, 77, 69, 78, 84>>
      [] s = "custom" -> <<99, 117, 115, 116, 111, 109>>
      [] s = "left" -> <<108, 101, 102, 116>>
      [] s = "right" -> <<114, 105, 103, 104, 116>>
      [] s = "middle" -> <<109, 105, 100, 100, 108, 101>>
      [] s = "x1" -> <<120, 49>>
      [] s = "x2" -> <<120, 50>>
      [] s = "top" -> <<116, 111, 112>>
      [] s = "bottom" -> <<98, 111, 116, 116, 111, 109>>
      [] s = "hotkey" -> <<104, 111, 116, 107, 101, 121>>
      [] s = "return_to_pc" -> <<114, 101, 116, 117, 114, 110, 95, 116, 111, 95, 112, 99>>
      [] s = "unknown" -> <<117, 110, 107, 110, 111, 119, 110>>
      [] s = "a" -> <<97>>
      [] s = "" -> <<>>
      [] s = LongText -> [i \in 1..80 |-> 97]

\* bytes.decode('utf-8') of bytes that encode a string of the model; bytes outside
\* ASCII are malformed in the model (the strings of the model are ASCII)
IsAscii(b) == \A j \in 1..Len(b) : b[j] < 128
Decoded(b) ==
    IF \E s \in Strings : Utf8(s) = b
    THEN CHOOSE s \in Strings : Utf8(s) = b
    ELSE "unknown"
\* bytes.decode('utf-8', errors='ignore'): malformed bytes are dropped
DecodeIgnore(b) == Decoded(SelectSeq(b, LAMBDA c : c < 128))
\* bytes.rstrip(b'\x00')
RECURSIVE RStripZero(_)
RStripZero(b) ==
    IF b = <<>> THEN b
    ELSE IF b[Len(b)] = 0 THEN RStripZero(SubSeq(b, 1, Len(b) - 1)) ELSE b

\* ---------------------------------------------------------------- dicts and JSON
\* A dict is the sequence of its items <<key, value>> in insertion order; a value
\* is a string, an integer or a boolean.
Str(s) == [kind |-> "str", s |-> s, i |-> 0]
Num(n) == [kind |-> "int", s |-> "", i |-> n]
Bool(b) == [kind |-> "bool", s |-> "", i |-> IF b THEN 1 ELSE 0]
Has(d, k) == \E j \in 1..Len(d) : d[j][1] = k
\* dict.get(k, default)
Get(d, k, default) ==
    IF Has(d, k) THEN d[CHOOSE j \in 1..Len(d) : d[j][1] = k][2] ELSE default
\* d1 == d2 on dicts: the same items, in any order
SameDict(a, b) == {a[j] : j \in 1..Len(a)} = {b[j] : j \in 1..Len(b)}

RECURSIVE Decimal(_)
Decimal(n) ==
    IF n < 10 THEN <<48 + n>> ELSE Decimal(n \div 10) \o <<48 + (n % 10)>>
\* ss[1] + sep + ss[2] + sep + ...
RECURSIVE Join(_, _)
Join(ss, sep) ==
    IF ss = <<>> THEN <<>>
    ELSE IF Len(ss) = 1 THEN ss[1]
    ELSE ss[1] \o sep \o Join(Tail(ss), sep)
Quoted(s) == <<34>> \o Utf8(s) \o <<34>>
JsonValue(v) ==
    CASE v.kind = "str" -> Quoted(v.s)
      [] v.kind = "int" -> Decimal(v.i)
      [] v.kind = "bool" -> IF v.i = 1 THEN <<116, 114, 117, 101>>
                            ELSE <<102, 97, 108, 115, 101>>
\* json.dumps(d).encode('utf-8') of a dict: {"k": v, "k": v}
JsonDumps(d) ==
    <<123>>
    \o Join([j \in 1..Len(d) |-> Quoted(d[j][1]) \o <<58, 32>> \o JsonValue(d[j][2])],
            <<44, 32>>)
    \o <<125>>
\* json.dumps(ds).encode('utf-8') of a list of dicts: [{...}, {...}]
JsonDumpsList(ds) ==
    <<91>> \o Join([j \in 1..Len(ds) |-> JsonDumps(ds[j])], <<44, 32>>) \o <<93>>

\* ---------------------------------------------------------------- zlib
\* zlib is outside the repository.  The handler relies on three facts: decompress
\* inverts compress, compress shortens a payload only when the payload is
\* repetitive, and decompress raises on bytes that are no stream.  The stand-in
\* below has them.  A stream is the two header bytes of a level-1 stream, then
\* <<a>>, a literal bytes, <<n, b>> for n repetitions of the byte b, and the
\* literal rest: the first run of four or more equal bytes is folded.
ZlibHeader == <<120, 1>>
\* the indices where a run of at least four equal bytes starts, 255 at most
RunStarts(p) ==
    {i \in 1..(Len(p) - 3) : i <= 255 /\ \A j \in 1..3 : p[i + j] = p[i]}
\* the last index of the run that starts at i (runs are cut at 255 bytes)
RunEnd(p, i) ==
    CHOOSE e \in i..Len(p) :
        /\ \A j \in i..e : p[j] = p[i]
        /\ e = Len(p) \/ e - i + 1 = 255 \/ p[e + 1] # p[i]
\* zlib.compress(payload, level=1)
ZlibCompress(p) ==
    IF RunStarts(p) = {}
    THEN ZlibHeader \o <<0>> \o <<0, 0>> \o p
    ELSE LET i == CHOOSE k \in RunStarts(p) : \A m \in RunStarts(p) : k <= m
             e == RunEnd(p, i)
         IN ZlibHeader \o <<i - 1>> \o SubSeq(p, 1, i - 1) \o <<e - i + 1, p[i]>>
            \o SubSeq(p, e + 1, Len(p))

IsStream(c) ==
    /\ Len(c) >= 5
    /\ SubSeq(c, 1, 2) = ZlibHeader
    /\ Len(c) >= 5 + c[3]
\* zlib.decompress(payload): zlib.error on bytes that are no stream
ZlibDecompress(c) ==
    IF ~IsStream(c) THEN Raised
    ELSE SubSeq(c, 4, 3 + c[3]) \o [j \in 1..c[4 + c[3]] |-> c[5 + c[3]]]
         \o SubSeq(c, 6 + c[3], Len(c))

\* ---------------------------------------------------------------- tables
\* PACKET_TYPES.get(name, 0x00) (lines 14-23, 55): the keys are upper-case names
PACKET_TYPES(name) ==
    CASE name = "MOUSE_MOVEMENT" -> 1
      [] name = "MOUSE_CLICK" -> 2
      [] name = "KEYBOARD_KEY" -> 3
      [] name = "SCROLL_EVENT" -> 4
      [] name = "GESTURE_START" -> 5
      [] name = "GESTURE_END" -> 6
      [] name = "CONTROL_SWITCH" -> 7
      [] name = "HEARTBEAT" -> 8
      [] OTHER -> 0
\* MOUSE_BUTTONS.get(name, 0x01) (lines 26-32, 98)
MOUSE_BUTTONS(name) ==
    CASE name = "left" -> 1 [] name = "right" -> 2 [] name = "middle" -> 3
      [] name = "x1" -> 4 [] name = "x2" -> 5 [] OTHER -> 1
\* CONTROL_EDGES.get(name, 0x01) (lines 35-42, 163)
CONTROL_EDGES(name) ==
    CASE name = "left" -> 1 [] name = "right" -> 2 [] name = "top" -> 3
      [] name = "bottom" -> 4 [] name = "hotkey" -> 5 [] name = "return_to_pc" -> 6
      [] OTHER -> 1
\* the loops of lines 311-315 and 360-364: the name of a code, or 'unknown'
ButtonName(code) ==
    IF \E n \in {"left", "right", "middle", "x1", "x2"} : MOUSE_BUTTONS(n) = code
    THEN CHOOSE n \in {"left", "right", "middle", "x1", "x2"} : MOUSE_BUTTONS(n) = code
    ELSE "unknown"
EdgeNames == {"left", "right", "top", "bottom", "hotkey", "return_to_pc"}
EdgeName(code) ==
    IF \E n \in EdgeNames : CONTROL_EDGES(n) = code
    THEN CHOOSE n \in EdgeNames : CONTROL_EDGES(n) = code
    ELSE "unknown"

\* ---------------------------------------------------------------- build_packet
CompressionThreshold == 64
CompressionFlag == 128
TypeMask == 127
JsonType == 255
BatchType == 254
SequenceModulus == 65536

\* mutant of NextSequence: the counter does not wrap
NextSequenceUnbounded(n) == n + 1
\* line 222
NextSequence(n) == (n + 1) % SequenceModulus

\* lines 204-210: the payload is replaced when compression pays
Compresses(payload, enabled) ==
    /\ enabled
    /\ Len(payload) > CompressionThreshold
    /\ Len(ZlibCompress(payload)) < Len(payload)

\* build_packet (lines 201-224) without the counter increment: the frame returned
BuildPacket(packet_type, payload, enabled) ==
    LET type_byte == IF Compresses(payload, enabled)
                     THEN BitOr(packet_type, CompressionFlag)
                     ELSE packet_type
        body == IF Compresses(payload, enabled) THEN ZlibCompress(payload)
                ELSE payload
        head == StructPack(<<"H", "B">>, <<HEADER_MAGIC, type_byte>>) \o body
    IN head \o StructPack(<<"H">>, <<CalculateChecksum(head)>>)

\* ---------------------------------------------------------------- encoders
\* Each returns the frame, or Raised when struct.pack raises (the counter is then
\* left alone: build_packet is not reached).
Framed(packet_type, payload, enabled) ==
    IF payload = Raised THEN Raised ELSE BuildPacket(packet_type, payload, enabled)

\* create_mouse_movement_packet (lines 75-89)
CreateMouseMovementPacket(e, timestamp, seq, enabled) ==
    Framed(1,
           StructPack(<<"H", "H", "I", "I", "Q">>,
                      <<seq, Get(e, "x", Num(0)).i, Get(e, "y", Num(0)).i,
                        timestamp>>),
           enabled)

\* create_mouse_click_packet (lines 91-112)
CreateMouseClickPacket(e, timestamp, seq, enabled) ==
    Framed(2,
           StructPack(<<"H", "I", "I", "I", "B", "B", "Q">>,
                      <<seq, Get(e, "x", Num(0)).i, Get(e, "y", Num(0)).i,
                        MOUSE_BUTTONS(Get(e, "button", Str("left")).s),
                        Get(e, "pressed", Bool(FALSE)).i, timestamp>>),
           enabled)

\* create_keyboard_packet (lines 114-138)
CreateKeyboardPacket(e, timestamp, seq, enabled) ==
    LET key_bytes == SubSeq(Utf8(Get(e, "key", Str("")).s), 1,
                            IF Len(Utf8(Get(e, "key", Str("")).s)) < 16
                            THEN Len(Utf8(Get(e, "key", Str("")).s)) ELSE 16)
        key_bytes_padded == key_bytes \o [j \in 1..(16 - Len(key_bytes)) |-> 0]
    IN Framed(3,
              StructPack(<<"H", "I", "B", "B", "B", "16s", "Q">>,
                         <<seq, Get(e, "key_code", Num(0)).i,
                           Get(e, "pressed", Bool(FALSE)).i, 0, key_bytes_padded,
                           timestamp>>),
              enabled)

\* create_scroll_packet (lines 140-158)
CreateScrollPacket(e, timestamp, seq, enabled) ==
    Framed(4,
           StructPack(<<"H", "I", "I", "H", "H", "H", "Q">>,
                      <<seq, Get(e, "x", Num(0)).i, Get(e, "y", Num(0)).i,
                        Get(e, "dx", Num(0)).i, Get(e, "dy", Num(0)).i, timestamp>>),
           enabled)

\* create_control_switch_packet (lines 160-176)
CreateControlSwitchPacket(e, timestamp, seq, enabled) ==
    Framed(7,
           StructPack(<<"H", "B", "B", "B", "Q">>,
                      <<seq, CONTROL_EDGES(Get(e, "edge", Str("left")).s), 0, 0, 0,
                        timestamp>>),
           enabled)

\* create_heartbeat_packet (lines 178-189)
CreateHeartbeatPacket(timestamp, seq, enabled) ==
    Framed(8, StructPack(<<"H", "Q">>, <<seq, timestamp>>), enabled)

\* create_json_packet (lines 191-199)
CreateJsonPacket(e, seq, enabled) ==
    Framed(JsonType,
           LET head == StructPack(<<"H", "H">>, <<seq, Len(JsonDumps(e))>>)
           IN IF head = Raised THEN Raised ELSE head \o JsonDumps(e),
           enabled)

\* create_packet (lines 49-73)
CreatePacket(e, now, seq, enabled) ==
    LET packet_type == Get(e, "type", Str("")).s
        timestamp == Get(e, "timestamp", Num(now)).i
        type_byte == PACKET_TYPES(packet_type)
    IN IF type_byte = 0 THEN CreateJsonPacket(e, seq, enabled)
       ELSE CASE packet_type = "mouse_move" ->
                     CreateMouseMovementPacket(e, timestamp, seq, enabled)
              [] packet_type = "mouse_click" ->
                     CreateMouseClickPacket(e, timestamp, seq, enabled)
              [] packet_type \in {"key_press", "key_release"} ->
                     CreateKeyboardPacket(e, timestamp, seq, enabled)
              [] packet_type = "mouse_scroll" ->
                     CreateScrollPacket(e, timestamp, seq, enabled)
              [] packet_type = "control_switch" ->
                     CreateControlSwitchPacket(e, timestamp, seq, enabled)
              [] OTHER -> CreateJsonPacket(e, seq, enabled)

\* create_batch_packet (lines 411-424) without the counter increment
CreateBatchPacket(batch, seq) ==
    LET head == StructPack(<<"H", "H">>, <<seq, Len(JsonDumpsList(batch))>>)
    IN IF head = Raised THEN Raised
       ELSE LET pkt == StructPack(<<"H", "B">>, <<HEADER_MAGIC, BatchType>>)
                       \o head \o JsonDumpsList(batch)
            IN pkt \o StructPack(<<"H">>, <<CalculateChecksum(pkt)>>)

\* ---------------------------------------------------------------- parsers
\* What a parser call gives: a dict, None, or an exception.
Parsed(d) == [kind |-> "dict", value |-> d]
None == [kind |-> "None", value |-> <<>>]
Raises == [kind |-> "raised", value |-> <<>>]

\* a, b, ... = struct.unpack(fmt, payload) succeeds: the payload has the size of
\* fmt (else struct.error) and fmt has as many codes as there are names (else
\* ValueError)
Unpacks(names, fmt, payload) == Len(payload) = CalcSize(fmt) /\ Len(fmt) = names

\* parse_mouse_movement_packet (lines 297-306)
ParseMouseMovementPacket(payload) ==
    LET fmt == <<"H", "I", "I", "Q">>
        v == StructUnpack(fmt, payload)
    IN IF ~Unpacks(4, fmt, payload) THEN Raises
       ELSE Parsed(<< <<"type", Str("mouse_move")>>, <<"sequence", Num(v[1])>>,
                      <<"x", Num(v[2])>>, <<"y", Num(v[3])>>,
                      <<"timestamp", Num(v[4])>> >>)

\* parse_mouse_click_packet (lines 308-325)
ParseMouseClickPacket(payload) ==
    LET fmt == <<"H", "I", "I", "I", "B", "B", "Q">>
        v == StructUnpack(fmt, payload)
    IN IF ~Unpacks(6, fmt, payload) THEN Raises
       ELSE Parsed(<< <<"type", Str("mouse_click")>>, <<"sequence", Num(v[1])>>,
                      <<"x", Num(v[2])>>, <<"y", Num(v[3])>>,
                      <<"button", Str(ButtonName(v[4]))>>,
                      <<"pressed", Bool(v[5] # 0)>>,
                      <<"timestamp", Num(v[6])>> >>)

\* parse_keyboard_packet (lines 327-342)
ParseKeyboardPacket(payload) ==
    LET fmt == <<"H", "I", "B", "B", "B", "16s", "Q">>
        v == StructUnpack(fmt, payload)
    IN IF ~Unpacks(6, fmt, payload) THEN Raises
       ELSE Parsed(<< <<"type", Str(IF v[3] = 1 THEN "key_press"
                                    ELSE "key_release")>>,
                      <<"sequence", Num(v[1])>>, <<"key_code", Num(v[2])>>,
                      <<"key", Str(DecodeIgnore(RStripZero(v[5])))>>,
                      <<"pressed", Bool(v[3] # 0)>>, <<"modifiers", Num(v[4])>>,
                      <<"timestamp", Num(v[6])>> >>)

\* parse_scroll_packet (lines 344-355)
ParseScrollPacket(payload) ==
    LET fmt == <<"H", "I", "I", "H", "H", "H", "Q">>
        v == StructUnpack(fmt, payload)
    IN IF ~Unpacks(6, fmt, payload) THEN Raises
       ELSE Parsed(<< <<"type", Str("mouse_scroll")>>, <<"sequence", Num(v[1])>>,
                      <<"x", Num(v[2])>>, <<"y", Num(v[3])>>, <<"dx", Num(v[4])>>,
                      <<"dy", Num(v[5])>>, <<"timestamp", Num(v[6])>> >>)

\* parse_control_switch_packet (lines 357-371)
ParseControlSwitchPacket(payload) ==
    LET fmt == <<"H", "B", "B", "B", "Q">>
        v == StructUnpack(fmt, payload)
    IN IF ~Unpacks(6, fmt, payload) THEN Raises
       ELSE Parsed(<< <<"type", Str("control_switch")>>, <<"sequence", Num(v[1])>>,
                      <<"edge", Str(EdgeName(v[2]))>>,
                      <<"timestamp", Num(v[6])>> >>)

\* parse_heartbeat_packet (lines 373-380)
ParseHeartbeatPacket(payload) ==
    LET fmt == <<"H", "Q">>
        v == StructUnpack(fmt, payload)
    IN IF ~Unpacks(2, fmt, payload) THEN Raises
       ELSE Parsed(<< <<"type", Str("heartbeat")>>, <<"sequence", Num(v[1])>>,
                      <<"timestamp", Num(v[2])>> >>)

\* ---------------------------------------------------------------- events
\* The dicts the input layer emits (input_capture.py), the heartbeat dict of the
\* connection manager, and dicts of kinds the handler has no layout for.
MouseMoveEvent(x, y, t) ==
    << <<"type", Str("mouse_move")>>, <<"x", Num(x)>>, <<"y", Num(y)>>,
       <<"timestamp", Num(t)>> >>
MouseClickEvent(x, y, button, pressed, t) ==
    << <<"type", Str("mouse_click")>>, <<"x", Num(x)>>, <<"y", Num(y)>>,
       <<"button", Str(button)>>, <<"pressed", Bool(pressed)>>,
       <<"timestamp", Num(t)>> >>
KeyEvent(kind, key, key_code, pressed, t) ==
    << <<"type", Str(kind)>>, <<"key", Str(key)>>, <<"key_code", Num(key_code)>>,
       <<"pressed", Bool(pressed)>>, <<"timestamp", Num(t)>> >>
MouseScrollEvent(x, y, dx, dy, t) ==
    << <<"type", Str("mouse_scroll")>>, <<"x", Num(x)>>, <<"y", Num(y)>>,
       <<"dx", Num(dx)>>, <<"dy", Num(dy)>>, <<"timestamp", Num(t)>> >>
ControlSwitchEvent(edge, t) ==
    << <<"type", Str("control_switch")>>, <<"edge", Str(edge)>>,
       <<"timestamp", Num(t)>> >>
HeartbeatEvent(t) ==
    << <<"type", Str("heartbeat")>>, <<"timestamp", Num(t)>> >>
\* a dict whose type is a key of PACKET_TYPES
RegisteredNameEvent(t) ==
    << <<"type", Str("MOUSE_MOVEMENT")>>, <<"x", Num(1)>>, <<"y", Num(2)>>,
       <<"timestamp", Num(t)>> >>
\* a dict of a kind unknown to the handler, short or long
CustomEvent(text) ==
    << <<"type", Str("custom")>>, <<"data", Str(text)>> >>

\* the reading of the clock, in milliseconds
Now == 1000
SupportedEvents ==
    {MouseMoveEvent(100, 200, Now),
     MouseClickEvent(100, 200, "left", TRUE, Now),
     KeyEvent("key_press", "a", 97, TRUE, Now),
     KeyEvent("key_release", "a", 97, FALSE, Now),
     MouseScrollEvent(100, 200, 0, 1, Now),
     ControlSwitchEvent("left", Now),
     HeartbeatEvent(Now)}
UnknownEvents == {CustomEvent("a"), CustomEvent(LongText)}
Events == SupportedEvents \cup UnknownEvents \cup {RegisteredNameEvent(Now)}

\* json.loads of the text of a dict of the model; any other text is malformed
JsonLoadsText(text) ==
    IF \E d \in Events : JsonDumps(d) = text
    THEN Parsed(CHOOSE d \in Events : JsonDumps(d) = text)
    ELSE Raises

\* parse_json_packet (lines 382-386): payload[:4] unpacked, then the slice
\* payload[4:4+json_len] (a slice never raises) decoded and loaded
ParseJsonPacket(payload) ==
    IF Len(payload) < 4 THEN Raises
    ELSE LET json_len == FromLittleEndian(SubSeq(payload, 3, 4))
             last == IF 4 + json_len < Len(payload) THEN 4 + json_len
                     ELSE Len(payload)
             json_data == SubSeq(payload, 5, last)
         IN IF ~IsAscii(json_data) THEN Raises ELSE JsonLoadsText(json_data)

\* ---------------------------------------------------------------- parse_packet
\* lines 276-295: the dispatch on the type code left after the flag is masked off
ParsePayload(packet_type, payload) ==
    CASE packet_type = 1 -> ParseMouseMovementPacket(payload)
      [] packet_type = 2 -> ParseMouseClickPacket(payload)
      [] packet_type = 3 -> ParseKeyboardPacket(payload)
      [] packet_type = 4 -> ParseScrollPacket(payload)
      [] packet_type = 7 -> ParseControlSwitchPacket(payload)
      [] packet_type = 8 -> ParseHeartbeatPacket(payload)
      [] packet_type = JsonType -> ParseJsonPacket(payload)
      [] OTHER -> None

\* lines 261-295: the part of parse_packet after the magic and checksum tests
ParseVerified(pkt) ==
    LET type_byte == pkt[3]
        compressed == BitAnd(type_byte, CompressionFlag) # 0
        packet_type == BitAnd(type_byte, TypeMask)
        raw == SubSeq(pkt, 4, Len(pkt) - 2)
        payload == IF compressed THEN ZlibDecompress(raw) ELSE raw
    IN IF compressed /\ ~IsStream(raw) THEN None
       ELSE IF ParsePayload(packet_type, payload).kind = "raised" THEN None
       ELSE ParsePayload(packet_type, payload)

\* mutant of ParsePacket: the payload is parsed without the checksum test
ParsePacketUnverified(pkt) ==
    IF Len(pkt) < 5 THEN None
    ELSE IF FromLittleEndian(SubSeq(pkt, 1, 2)) # HEADER_MAGIC THEN None
    ELSE ParseVerified(pkt)

\* parse_packet (lines 247-295)
ParsePacket(pkt) ==
    IF Len(pkt) < 5 THEN None
    ELSE IF FromLittleEndian(SubSeq(pkt, 1, 2)) # HEADER_MAGIC THEN None
    ELSE IF ~VerifyChecksum(pkt) THEN None
    ELSE ParseVerified(pkt)

\* ---------------------------------------------------------------- codec calls
\* encode calls made while the counter is within MaxSequence of zero, on either side
MaxSequence == 4
SequenceStarts == {0, SequenceModulus - 2}
Encodable ==
    packet_sequence < MaxSequence \/ packet_sequence >= SequenceModulus - MaxSequence

\* what an encode call leaves: the frame (or the exception) and the counter, which
\* build_packet has incremented if it was reached
Encoded(frame) ==
    /\ packet' = frame
    /\ packet_sequence' =
           IF frame = Raised THEN packet_sequence ELSE NextSequence(packet_sequence)
    /\ received' = NoPacket
    /\ result' = NoResult
    /\ defect' = "none"
    /\ UNCHANGED <<compression_enabled, manager, batching, input_capture>>

\* create_packet(event_data)
CreatePacketCall(e) ==
    /\ Encodable
    /\ event_data' = e
    /\ Encoded(CreatePacket(e, Now, packet_sequence, compression_enabled))

\* create_heartbeat_packet()
CreateHeartbeatPacketCall ==
    /\ Encodable
    /\ event_data' = <<>>
    /\ Encoded(CreateHeartbeatPacket(Now, packet_sequence, compression_enabled))

\* parse_packet(packet) on the frame just built
ParsePacketCall ==
    /\ packet # NoPacket
    /\ packet # Raised
    /\ received = NoPacket
    /\ received' = packet
    /\ result' = ParsePacket(packet)
    /\ defect' = "none"
    /\ UNCHANGED <<protocol_handler, event_data, packet, manager, batching,
                   input_capture>>

\* The handler after any number of encode calls: the counter is near its wrap or
\* at zero.
CodecInit ==
    /\ ManagerInit /\ BatchInit /\ InputInit
    /\ packet_sequence \in SequenceStarts
    /\ compression_enabled = TRUE
    /\ event_data = <<>>
    /\ packet = NoPacket
    /\ received = NoPacket
    /\ result = NoResult
    /\ defect = "none"

NextProtocol ==
    \/ \E e \in Events : CreatePacketCall(e)
    \/ CreateHeartbeatPacketCall
    \/ ParsePacketCall
SpecProtocol == CodecInit /\ [][NextProtocol]_vars

\* ---------------------------------------------------------------- corrupted frames
\* frame with bit k flipped: bit k % 8 of byte k \div 8 (bits counted from 0)
FlipBit(frame, k) ==
    [frame EXCEPT ![k \div 8 + 1] = BitXor(frame[k \div 8 + 1], 2 ^ (k % 8))]

\* parse_packet on the frame just built with one bit flipped on the way
ParseCorruptedCall(k) ==
    /\ packet # NoPacket
    /\ packet # Raised
    /\ received = NoPacket
    /\ k \in 0..(8 * Len(packet) - 1)
    /\ received' = FlipBit(packet, k)
    /\ result' = ParsePacket(FlipBit(packet, k))
    /\ defect' = "bit_flip"
    /\ UNCHANGED <<protocol_handler, event_data, packet, manager, batching,
                   input_capture>>

\* frames of every shape the encoder produces: binary, JSON, compressed JSON
ChecksumEvents == UnknownEvents \cup {HeartbeatEvent(Now)}
\* the longest frame of ChecksumEvents, in bytes
MaxFrameLen == 64
\* the first encode call of a new handler
ChecksumEncodable == packet = NoPacket
NextChecksum ==
    \/ \E e \in ChecksumEvents : ChecksumEncodable /\ CreatePacketCall(e)
    \/ ChecksumEncodable /\ CreateHeartbeatPacketCall
    \/ ParsePacketCall
    \/ \E k \in 0..(8 * MaxFrameLen - 1) : ParseCorruptedCall(k)
SpecChecksum == CodecInit /\ [][NextChecksum]_vars

\* ---------------------------------------------------------------- received bytes
\* Bytes as a peer may send them: a frame with a given magic, type byte and
\* payload, closed with the checksum of what precedes it.
WireFrame(magic, type_byte, payload) ==
    LET head == LittleEndian(magic, 2) \o <<type_byte>> \o payload
    IN head \o LittleEndian(CalculateChecksum(head), 2)

\* the layout the parser of a type code unpacks (lines 299, 310, 329, 346, 359, 375)
Layout(t) ==
    CASE t = 1 -> <<"H", "I", "I", "Q">>
      [] t = 2 -> <<"H", "I", "I", "I", "B", "B", "Q">>
      [] t = 3 -> <<"H", "I", "B", "B", "B", "16s", "Q">>
      [] t = 4 -> <<"H", "I", "I", "H", "H", "H", "Q">>
      [] t = 7 -> <<"H", "B", "B", "B", "Q">>
      [] t = 8 -> <<"H", "Q">>
ParsedTypes == {1, 2, 3, 4, 7, 8}
\* type codes with no branch in parse_packet; 127 is what is left of 0xFF
UnparsedTypes == {0, 5, 6, 9, 126, 127}
WireSequence == 7
\* a payload of the size of the layout of t: sequence number 7, then zeros
WellSized(t) ==
    LittleEndian(WireSequence, 2) \o [j \in 1..(CalcSize(Layout(t)) - 2) |-> 0]
\* the same with bytes in the key field that are no UTF-8
BadKeyPayload ==
    [j \in 1..CalcSize(Layout(3)) |-> IF j \in 10..11 THEN 255 ELSE 0]
MouseMovePayload == StructPack(Layout(1), <<WireSequence, 100, 200, Now>>)
HeartbeatPayload == StructPack(Layout(8), <<WireSequence, Now>>)
\* payloads of the JSON fallback: sequence number, declared length, text
JsonPayload(declared, text) ==
    LittleEndian(WireSequence, 2) \o LittleEndian(declared, 2) \o text
JsonText == JsonDumps(CustomEvent("a"))
\* a payload as sent, and as sent compressed under the flag
Flagged(t, payload) ==
    {WireFrame(HEADER_MAGIC, t, payload),
     WireFrame(HEADER_MAGIC, BitOr(t, CompressionFlag), ZlibCompress(payload))}
Input(bytes, d) == [bytes |-> bytes, defect |-> d]
Labelled(frames, d) == {Input(f, d) : f \in frames}
WrongMagics == {0, 43706, 48042, 65535}
ChecksumOffsets == {1, 256, 65535}

ShortInputs ==
    {Input(SubSeq(WireFrame(HEADER_MAGIC, 8, HeartbeatPayload), 1, n), "short") :
        n \in 0..4}
MagicInputs ==
    {Input(WireFrame(m, t, WellSized(t)), "magic") : m \in WrongMagics, t \in {1, 8}}
ChecksumInputs ==
    {Input(LET f == WireFrame(HEADER_MAGIC, t, WellSized(t))
           IN ButLastTwo(f) \o
              LittleEndian((FromLittleEndian(LastTwo(f)) + d) % 65536, 2),
           "checksum") : d \in ChecksumOffsets, t \in {1, 8}}
DecompressInputs ==
    {Input(WireFrame(HEADER_MAGIC, BitOr(t, CompressionFlag), p), "decompress") :
        t \in {1, 8, 127}, p \in {WellSized(8), JsonPayload(Len(JsonText), JsonText)}}
UnknownTypeInputs ==
    UNION {Labelled(Flagged(t, WellSized(1)), "unknown_type") \cup
           {Input(WireFrame(HEADER_MAGIC, t, <<>>), "unknown_type")} :
           t \in UnparsedTypes \ {127}}
LengthInputs ==
    UNION {Labelled(Flagged(t, SubSeq(WellSized(t), 1, Len(WellSized(t)) - 1))
                    \cup Flagged(t, WellSized(t) \o <<0>>)
                    \cup Flagged(t, <<>>), "length") : t \in ParsedTypes}
Utf8Inputs ==
    Labelled(Flagged(3, BadKeyPayload), "utf8") \cup
    {Input(WireFrame(HEADER_MAGIC, JsonType,
                     ZlibCompress(JsonPayload(2, <<255, 254>>))), "utf8")}
JsonInputs ==
    {Input(WireFrame(HEADER_MAGIC, JsonType,
                     ZlibCompress(JsonPayload(n, SubSeq(JsonText, 1, n)))), "json") :
        n \in {0, 1, Len(JsonText) - 1}}
JsonLenInputs ==
    {Input(WireFrame(HEADER_MAGIC, JsonType,
                     ZlibCompress(JsonPayload(n, JsonText))), "json_len") :
        n \in {Len(JsonText) - 1, Len(JsonText) + 1}}
\* frames with none of the defects: the two layouts that parse, the four whose
\* parsers unpack into the wrong number of names, and the JSON fallback
SoundInputs ==
    Labelled(Flagged(1, MouseMovePayload) \cup Flagged(8, HeartbeatPayload)
             \cup UNION {Flagged(t, WellSized(t)) : t \in ParsedTypes}
             \cup {WireFrame(HEADER_MAGIC, JsonType,
                             ZlibCompress(JsonPayload(Len(JsonText), JsonText)))},
             "none")
WireInputs ==
    ShortInputs \cup MagicInputs \cup ChecksumInputs \cup DecompressInputs
    \cup UnknownTypeInputs \cup LengthInputs \cup Utf8Inputs \cup JsonInputs
    \cup JsonLenInputs \cup SoundInputs

\* parse_packet(packet) on bytes that arrived
ParseInputCall(input) ==
    /\ result = NoResult
    /\ received' = input.bytes
    /\ result' = ParsePacket(input.bytes)
    /\ defect' = input.defect
    /\ UNCHANGED <<protocol_handler, event_data, packet, manager, batching,
                   input_capture>>

NextParse ==
    \/ CreateHeartbeatPacketCall
    \/ \E input \in WireInputs : ParseInputCall(input)
SpecParse == CodecInit /\ [][NextParse]_vars

\* ---------------------------------------------------------------- batch_events
\* batch_events(events, max_size) (lines 388-409), one step per pass of its loop.
\* next_event is the position of the for loop: 0 before the call, Len(events) + 1
\* when the loop is over.
MaxBatchEvents == 3
BatchEvents == {MouseMoveEvent(100, 200, Now), HeartbeatEvent(Now), CustomEvent(LongText)}
BatchInputs == UNION {[1..n -> BatchEvents] : n \in 0..MaxBatchEvents}
MaxSizes == {10, 100, 1024}
BatchReturned == [kind |-> "returned", value |-> <<>>]

\* mutant of NewBatch: the event that did not fit is dropped
NewBatchDropped(event) == <<>>
\* line 401: current_batch = [event]
NewBatch(event) == <<event>>

\* lines 390-392
BatchEventsCall(evs, m) ==
    /\ next_event = 0
    /\ events' = evs
    /\ max_size' = m
    /\ next_event' = 1
    /\ packets' = <<>>
    /\ current_batch' = <<>>
    /\ current_size' = 0
    /\ UNCHANGED <<protocol_handler, codec_io, manager, input_capture>>

\* lines 394-404: one pass of the loop.  create_packet advances the counter, and
\* create_batch_packet advances it again when the batch is flushed.
BatchEventsLoop ==
    /\ next_event \in 1..Len(events)
    /\ result = NoResult
    /\ LET event == events[next_event]
           frame == CreatePacket(event, Now, packet_sequence, compression_enabled)
           after == NextSequence(packet_sequence)
       IN IF frame = Raised
          THEN /\ result' = Raises
               /\ packet' = Raised
               /\ UNCHANGED <<packet_sequence, next_event, current_batch,
                              current_size, packets>>
          ELSE /\ packet' = frame
               /\ result' = result
               /\ next_event' = next_event + 1
               /\ IF current_size + Len(frame) > max_size /\ current_batch # <<>>
                  THEN /\ packets' =
                              Append(packets, CreateBatchPacket(current_batch, after))
                       /\ current_batch' = NewBatch(event)
                       /\ current_size' = Len(frame)
                       /\ packet_sequence' = NextSequence(after)
                  ELSE /\ packets' = packets
                       /\ current_batch' = Append(current_batch, event)
                       /\ current_size' = current_size + Len(frame)
                       /\ packet_sequence' = after
    /\ event_data' = events[next_event]
    /\ UNCHANGED <<compression_enabled, received, defect, events, max_size, manager,
                   input_capture>>

\* lines 406-409: the remaining batch, and the return
BatchEventsReturn ==
    /\ next_event = Len(events) + 1
    /\ result = NoResult
    /\ IF current_batch # <<>>
       THEN /\ packets' =
                   Append(packets, CreateBatchPacket(current_batch, packet_sequence))
            /\ packet_sequence' = NextSequence(packet_sequence)
       ELSE UNCHANGED <<packets, packet_sequence>>
    /\ result' = BatchReturned
    /\ UNCHANGED <<compression_enabled, event_data, packet, received, defect, events,
                   max_size, next_event, current_batch, current_size, manager,
                   input_capture>>

NextBatch ==
    \/ \E evs \in BatchInputs, m \in MaxSizes : BatchEventsCall(evs, m)
    \/ BatchEventsLoop
    \/ BatchEventsReturn
SpecBatch == CodecInit /\ [][NextBatch]_vars

\* ================================================================ input_capture.py
\* The InputCapture object (input_capture.py) and the slots of main.py that join
\* it to the connection manager and to the protocol handler.
screen_width == 1920
screen_height == 1080
edge_threshold == 10
NoEdge == "none"
\* check_screen_edge_switch (lines 103-118)
CheckScreenEdgeSwitch(x, y) ==
    IF x <= edge_threshold THEN "left"
    ELSE IF x >= screen_width - edge_threshold THEN "right"
    ELSE IF y <= edge_threshold THEN "top"
    ELSE IF y >= screen_height - edge_threshold THEN "bottom"
    ELSE NoEdge

\* where the pointer is reported: at the left edge, in the middle, at the bottom
Positions == {<<5, 500>>, <<960, 540>>, <<960, 1075>>}
\* create_packet calls made for forwarded events
MaxForwarded == 2

\* a step of the input layer or of a slot of the window: nothing is read from or
\* written to a peer, nothing is returned by the connection manager
NoManagerObservation ==
    /\ NoObservation
    /\ last_write' = NoWrite
    /\ ui_result' = NoReturn

\* the callbacks of the mouse listener thread, with their arguments
MoveCall(x, y) == [NoCall EXCEPT !.kind = "move", !.x = x, !.y = y]
ClickCall(x, y, button, pressed) ==
    [NoCall EXCEPT !.kind = "click", !.x = x, !.y = y, !.button = button,
                   !.pressed = pressed]
ScrollCall(x, y, dx, dy) ==
    [NoCall EXCEPT !.kind = "scroll", !.x = x, !.y = y, !.dx = dx, !.dy = dy]
\* what a step of the window or of the listener thread leaves alone
InputStep == UNCHANGED <<program, protocol_handler, codec_io, batching, switch_sent>>

\* toggle_input_capture (main.py lines 253-268) with capture inactive and a
\* session up: start_capture (lines 52-77).  Without a session a message box is
\* shown and nothing changes.
ToggleInputCaptureStart ==
    /\ pc[UI] = "idle"
    /\ ~active
    /\ lock = NoThread
    /\ connected
    /\ active' = TRUE
    /\ NoManagerObservation
    /\ InputStep
    /\ UNCHANGED <<control_active, input_event, mouse_call>>

\* toggle_input_capture with capture active: stop_capture (lines 79-96).
\* control_active is left as it is, and a callback that is running runs on.
ToggleInputCaptureStop ==
    /\ pc[UI] = "idle"
    /\ active
    /\ active' = FALSE
    /\ NoManagerObservation
    /\ InputStep
    /\ UNCHANGED <<control_active, input_event, mouse_call>>

\* on_mouse_move, lines 122-129: the listener thread reads self.active, without
\* the lock of start_capture and stop_capture, and the rate limit lets the call
\* through (a call inside the interval returns at line 129)
OnMouseMoveGuard(x, y) ==
    /\ mouse_call = NoCall
    /\ active
    /\ mouse_call' = MoveCall(x, y)
    /\ NoManagerObservation
    /\ InputStep
    /\ UNCHANGED <<active, control_active, input_event>>

\* on_mouse_move, lines 131-159: the edge test, the switch of control and the
\* emission.  The emitted dict waits for its slot.
OnMouseMove ==
    /\ mouse_call.kind = "move"
    /\ input_event = NoInput
    /\ IF CheckScreenEdgeSwitch(mouse_call.x, mouse_call.y) # NoEdge
          /\ ~control_active
       THEN /\ control_active' = TRUE
            /\ input_event' =
                   ControlSwitchEvent(
                       CheckScreenEdgeSwitch(mouse_call.x, mouse_call.y), Now)
       ELSE IF control_active
       THEN /\ input_event' = MouseMoveEvent(mouse_call.x, mouse_call.y, Now)
            /\ UNCHANGED control_active
       ELSE UNCHANGED <<control_active, input_event>>
    /\ mouse_call' = NoCall
    /\ NoManagerObservation
    /\ InputStep
    /\ UNCHANGED active

\* on_mouse_click, lines 163-164: both flags are read, without the lock
OnMouseClickGuard(x, y, button, pressed) ==
    /\ mouse_call = NoCall
    /\ active
    /\ control_active
    /\ mouse_call' = ClickCall(x, y, button, pressed)
    /\ NoManagerObservation
    /\ InputStep
    /\ UNCHANGED <<active, control_active, input_event>>

\* on_mouse_click, lines 166-178
OnMouseClick ==
    /\ mouse_call.kind = "click"
    /\ input_event = NoInput
    /\ input_event' = MouseClickEvent(mouse_call.x, mouse_call.y, mouse_call.button,
                                      mouse_call.pressed, Now)
    /\ mouse_call' = NoCall
    /\ NoManagerObservation
    /\ InputStep
    /\ UNCHANGED <<active, control_active>>

\* on_mouse_scroll, lines 182-183
OnMouseScrollGuard(x, y, dx, dy) ==
    /\ mouse_call = NoCall
    /\ active
    /\ control_active
    /\ mouse_call' = ScrollCall(x, y, dx, dy)
    /\ NoManagerObservation
    /\ InputStep
    /\ UNCHANGED <<active, control_active, input_event>>

\* on_mouse_scroll, lines 185-194
OnMouseScroll ==
    /\ mouse_call.kind = "scroll"
    /\ input_event = NoInput
    /\ input_event' = MouseScrollEvent(mouse_call.x, mouse_call.y, mouse_call.dx,
                                       mouse_call.dy, Now)
    /\ mouse_call' = NoCall
    /\ NoManagerObservation
    /\ InputStep
    /\ UNCHANGED <<active, control_active>>

\* return_control_to_pc (lines 317-328).  Nothing calls it: connect_signals
\* (main.py lines 210-216) joins no signal to it and process_client_message only
\* writes a log line, so it is in no next-state relation.
ReturnControlToPc ==
    /\ control_active
    /\ input_event = NoInput
    /\ control_active' = FALSE
    /\ input_event' = ControlSwitchEvent("return_to_pc", Now)
    /\ NoManagerObservation
    /\ InputStep
    /\ UNCHANGED <<active, mouse_call>>

\* on_input_event (main.py lines 289-291): is_connected under the lock, then
\* create_packet; send_packet is still to be called
OnInputEvent ==
    /\ pc[UI] = "idle"
    /\ input_event # NoInput
    /\ lock = NoThread
    /\ connected => packet_sequence < MaxForwarded
    /\ input_event' = NoInput
    /\ IF connected
       THEN /\ event_data' = input_event
            /\ packet' = CreatePacket(input_event, Now, packet_sequence,
                                      compression_enabled)
            /\ packet_sequence' = NextSequence(packet_sequence)
            /\ pc' = [pc EXCEPT ![UI] = "ie_send"]
       ELSE UNCHANGED <<event_data, packet, packet_sequence, pc>>
    /\ NoManagerObservation
    /\ UNCHANGED <<session, listener, lock, sock, signals, ret, locals,
                   compression_enabled, received, result, defect, batching, active,
                   control_active, mouse_call, switch_sent>>

\* on_input_event (main.py line 292): send_packet takes the lock for the write
\* (connection_manager.py lines 285-290)
OnInputEventSend ==
    /\ pc[UI] = "ie_send"
    /\ lock = NoThread
    /\ ~NotConnected
    /\ lock' = UI
    /\ pc' = [pc EXCEPT ![UI] = "sp_send"]
    /\ NoManagerObservation
    /\ ManagerStep
    /\ UNCHANGED <<session, listener, sock, signals, ret, locals>>

\* the write of send_packet (connection_manager.py lines 290-291) for the frame
\* of on_input_event: the peer of the session is given the event, and
\* on_input_event returns (its packet and event_data are gone)
OnInputEventWritten ==
    /\ pc[UI] = "sp_send"
    /\ HostOpen(client_socket)
    /\ last_write' = Write(client_socket, "packet")
    /\ lock' = NoThread
    /\ pc' = [pc EXCEPT ![UI] = "idle"]
    /\ ui_result' = Returned("send_packet", "true")
    /\ NoObservation
    /\ switch_sent' = IF Get(event_data, "type", Str("")).s = "control_switch"
                      THEN switch_sent \cup {client_socket}
                      ELSE switch_sent
    /\ event_data' = <<>>
    /\ packet' = NoPacket
    /\ UNCHANGED <<session, listener, sock, signals, ret, locals, protocol_handler,
                   received, result, defect, batching, active, control_active,
                   input_event, mouse_call>>

\* the steps of the input layer and of the slots of the window
InputLayerStep ==
    \/ ToggleInputCaptureStart
    \/ ToggleInputCaptureStop
    \/ \E p \in Positions : OnMouseMoveGuard(p[1], p[2])
    \/ OnMouseMove
    \/ \E pressed \in BOOLEAN : OnMouseClickGuard(960, 540, "left", pressed)
    \/ OnMouseClick
    \/ OnMouseScrollGuard(960, 540, 0, 1)
    \/ OnMouseScroll
    \/ OnInputEvent
    \/ OnInputEventSend
    \/ OnInputEventWritten

\* The behaviours in which one peer connects, capture is switched on and off,
\* the pointer moves, and the peer sends what it likes.  The session is not ended.
NextControl ==
    \/ StartServerOk
    \/ \E t \in AccThreads : AcceptFirstConnection(t)
    \/ \E t \in AccThreads : \E r \in Replies : HandshakeReply(t, r)
    \/ \E t \in AccThreads : InstallClient(t)
    \/ \E t \in AccThreads : EmitConnected(t)
    \/ \E s \in Socks : ReceiveLoopTest(s)
    \/ \E s \in Socks : ReceiveData(s)
    \/ InputLayerStep
SpecControl == Init /\ [][NextControl]_vars
\* the receive thread of a session runs: what the peer sent is read
FairSpecControl ==
    /\ SpecControl
    /\ WF_vars(\E s \in Socks : ReceiveLoopTest(s) \/ ReceiveData(s))

\* a connection that comes while the input layer is at rest: capture is off, no
\* callback is running and no event waits for its slot
AcceptAtRest(t) ==
    /\ ~active
    /\ mouse_call = NoCall
    /\ input_event = NoInput
    /\ pc[UI] = "idle"
    /\ AcceptConnection(t)

\* the user starts capture while no handshake is under way
StartAtRest ==
    /\ \A t \in AccThreads : pc[t] \in {"off", "acc_loop"}
    /\ ToggleInputCaptureStart

\* a reply that completes the handshake
NamedReply == [kind |-> "handshake_response", has_name |-> TRUE, device_name |-> "Pixel"]
\* The behaviours in which a second peer takes the place of the first while
\* capture is off and no callback is running, so that the slot of
\* status_changed (main.py lines 270-284) finds nothing to stop, and the
\* pointer moves.  The receive loops and the heartbeat
\* are left out.
NextSessions ==
    \/ StartServerOk
    \/ \E t \in AccThreads : AcceptAtRest(t)
    \/ \E t \in AccThreads : HandshakeReply(t, NamedReply)
    \/ \E t \in AccThreads : InstallClient(t)
    \/ \E t \in AccThreads : EmitConnected(t)
    \/ \E t \in AccThreads : DisconnectLocked(t)
    \/ \E t \in AccThreads : DisconnectEmit(t)
    \/ StartAtRest
    \/ ToggleInputCaptureStop
    \/ \E p \in Positions : OnMouseMoveGuard(p[1], p[2])
    \/ OnMouseMove
    \/ OnInputEvent
    \/ OnInputEventSend
    \/ OnInputEventWritten
SpecSessions == Init /\ [][NextSessions]_vars

\* ================================================================ claims
OpenHere(s) == sock[s] \in {"open", "peer_gone"}
Idle == ~connected /\ client_socket = 0 /\ client_address = 0 /\ device_name = ""

\* No thread is inside an operation: the UI is between calls, the accept loops wait
\* in accept(), the heartbeat loops are between two heartbeats, and every receive
\* loop has ended or waits in recv() on a healthy socket of a running session.
Quiescent ==
    /\ pc[UI] = "idle"
    /\ \A t \in AccThreads : pc[t] \in {"off", "acc_loop", "done"}
    /\ \A t \in HbThreads : pc[t] \in {"off", "hb_loop", "hb_check", "done"}
    /\ \A s \in Socks :
         \/ pc[Rx(s)] \in {"off", "done"}
         \/ pc[Rx(s)] = "rx_recv" /\ sock[s] = "open" /\ server_running /\ connected

\* C1 (checked under SpecRestart, where no peer goes away): after two successful
\* handshakes, peer 1 then peer 2, with no shutdown, once every thread is quiescent
\* the session is Connected to peer 2 and the socket of peer 1 is closed.
C1_LastHandshakeWins ==
    ( /\ starts = 1 /\ server_running
      /\ emitted[1].up = 1 /\ emitted[2].up = 1
      /\ Quiescent )
    => ( /\ connected
         /\ client_socket = 2
         /\ client_address = 2
         /\ sock[2] = "open"
         /\ sock[1] = "closed" )

\* C2: at most one peer socket that completed the handshake and was installed is
\* still open.
C2_OneInstalledOpen ==
    Cardinality({s \in Socks : Installed(s) /\ OpenHere(s)}) <= 1

\* C3: a send_packet call made while no session is Connected does not reach the
\* write; it returns False in the same step, nothing is written to any socket and
\* the session record, the sockets and the mutex are left as they were.
C3_SendRefused ==
    [][ (pc[UI] = "idle" /\ (~connected \/ client_socket = 0))
        => ( /\ pc'[UI] # "sp_send"
             /\ ui_result'.call = "send_packet"
                  => ( /\ ui_result'.value = "false"
                       /\ last_write' = NoWrite
                       /\ pc'[UI] = "idle"
                       /\ UNCHANGED <<session, sock, lock, signals>> ) ) ]_vars

C3_Witness ==
    /\ ui_result = Returned("send_packet", "false")
    /\ server_running
    /\ ~connected

\* C4: when the write of send_packet fails, the disconnect_client it calls can take
\* the session mutex (the caller does not wait for a mutex it holds itself), so the
\* call returns False and leaves the mutex free.
C4_SendFailureReturns ==
    (pc[UI] = "dc_lock" /\ ret[UI] = "sp_return") => lock # UI

\* C5: disconnect_client on a Connected session with a non-empty device name closes
\* the installed socket and clears connected, device name and address in one step
\* made with the mutex free before and after, emitting nothing yet; the same call
\* then emits exactly one status_changed(False, "") and returns.
C5_DisconnectConnected ==
    [][ \A t \in Threads :
          /\ ( /\ pc[t] = "dc_lock" /\ pc'[t] # "dc_lock"
               /\ connected /\ client_socket # 0 /\ device_name # "" )
             => ( /\ lock = NoThread /\ lock' = NoThread
                  /\ sock'[client_socket] = "closed"
                  /\ client_socket' = 0
                  /\ ~connected'
                  /\ device_name' = ""
                  /\ client_address' = 0
                  /\ old_device_name'[t] = device_name
                  /\ pc'[t] = "dc_emit"
                  /\ UNCHANGED signals )
          /\ ( /\ pc[t] = "dc_emit" /\ pc'[t] # "dc_emit"
               /\ old_device_name[t] # "" )
             => ( /\ last_event' = StatusEvent(FALSE, "", old_address[t])
                  /\ emitted' = [emitted EXCEPT ![old_address[t]].down = @ + 1]
                  /\ pc'[t] = ret[t] ) ]_vars

C5_Witness ==
    \E s \in Socks :
        /\ last_event = StatusEvent(FALSE, "", s)
        /\ emitted[s].down = 1
        /\ sock[s] = "closed"
        /\ Idle

\* C6: disconnect_client on an Idle session changes no state and emits no event, and
\* no session is given more than one status_changed(False, "") however many
\* disconnect_client calls are made against it.
C6_DisconnectIdempotent ==
    /\ [](\A s \in Socks : emitted[s].down <= 1)
    /\ [][ \A t \in Threads :
             /\ (pc[t] = "dc_lock" /\ pc'[t] # "dc_lock" /\ Idle)
                => ( /\ UNCHANGED <<session, sock, signals, lock>>
                     /\ old_device_name'[t] = "" )
             /\ (pc[t] = "dc_emit" /\ pc'[t] # "dc_emit" /\ old_device_name[t] = "")
                => UNCHANGED signals ]_vars

\* stop_server's call and the receive loop's call were both made against session s
C6_Witness ==
    \E s \in Socks :
        /\ emitted[s].down = 1
        /\ pc[Rx(s)] = "done"
        /\ pc[UI] = "idle"
        /\ ~server_running

\* C7: a candidate whose handshake times out, or whose reply is empty, not JSON or
\* of another type, is closed; the session record, every other socket and the
\* status_changed emissions are left as they were.
C7_FailedHandshakeDiscarded ==
    [][ \A t \in AccThreads : \A r \in Replies :
          (r.kind # "handshake_response" /\ HandshakeReply(t, r))
          => ( /\ sock'[cand[t]] = "closed"
               /\ \A s \in Socks \ {cand[t]} : sock'[s] = sock[s]
               /\ pc'[t] = "acc_loop"
               /\ UNCHANGED <<session, signals, lock>> ) ]_vars

\* a candidate was discarded while another peer is Connected
C7_Witness ==
    \E s \in Socks :
        /\ sock[s] = "closed"
        /\ ~Installed(s)
        /\ connected
        /\ client_socket # 0
        /\ client_socket # s

\* C8: connected becomes true only in the install step of a handshake whose reply was
\* a handshake_response, on the socket that answered; status_changed(True, name) is
\* emitted only by that handshake, with name the reply's device_name, or
\* "Unknown Device" when the reply has none.
C8_ConnectedOnlyByHandshake ==
    [][ /\ (~connected /\ connected')
           => \E t \in AccThreads :
                /\ pc[t] = "hs_install" /\ pc'[t] = "hs_emit"
                /\ response[t].kind = "handshake_response"
                /\ OpenHere(cand[t])
                /\ client_socket' = cand[t]
        /\ \A s \in Socks :
             (emitted'[s].up # emitted[s].up)
             => \E t \in AccThreads :
                  /\ pc[t] = "hs_emit" /\ cand[t] = s
                  /\ response[t].kind = "handshake_response"
                  /\ emitted'[s].up = emitted[s].up + 1
                  /\ last_event' =
                       StatusEvent(TRUE,
                                   IF response[t].has_name
                                   THEN response[t].device_name
                                   ELSE "Unknown Device",
                                   s)
        /\ (last_event'.connected /\ last_event' # last_event)
             => emitted'[last_event'.sock].up # emitted[last_event'.sock].up ]_vars

C8_Witness ==
    \E s \in Socks :
        /\ last_event = StatusEvent(TRUE, "Unknown Device", s)
        /\ connected
        /\ client_socket = s

\* C9: while the handshake with a candidate is pending, the accept loop that took the
\* candidate can accept a further connection and can observe the shutdown flag.
C9_AcceptLoopFree ==
    \A t \in AccThreads :
        pc[t] = "hs_recv"
        => /\ (server_running /\ server_socket # 0 /\ Unused # {})
                => ENABLED AcceptConnection(t)
           /\ ~server_running => ENABLED AcceptLoopExit(t)

\* C10 (under FairSpec): once the receive loop of the Connected peer (device name not
\* empty) waits in recv() on a socket whose peer is gone, the session of that peer
\* ends: it is no longer installed and its status_changed(False, "") is emitted.
C10_ReceiveFailureEndsSession ==
    \A s \in Socks :
        ( /\ pc[Rx(s)] = "rx_recv"
          /\ connected /\ client_socket = s /\ device_name # ""
          /\ sock[s] = "peer_gone" )
        ~> (client_socket # s /\ emitted[s].down >= 1)

\* C11 (under FairSpec): after its sleep the heartbeat loop goes on to send exactly
\* when it reads connected as true; a heartbeat is written only by that loop, to the
\* installed socket of a Connected session; and when the send fails, the
\* disconnect_client the loop calls completes (the session is then Idle) and the
\* loop is back at its loop test.
C11_HeartbeatLoop ==
    /\ [][ /\ \A t \in HbThreads :
                (pc[t] = "hb_check" /\ pc'[t] # "hb_check")
                => pc'[t] = (IF connected THEN "hb_send" ELSE "hb_loop")
          /\ (last_write'.kind = "heartbeat")
                => ( /\ connected /\ client_socket # 0
                     /\ last_write'.sock = client_socket
                     /\ \E t \in HbThreads : pc[t] = "hb_send" /\ pc'[t] = "hb_loop" )
          /\ \A t \in HbThreads :
                (pc[t] = "hb_send" /\ pc'[t] # "hb_send" /\ last_write'.kind # "heartbeat")
                => (pc'[t] = "dc_lock" /\ ret'[t] = "hb_loop") ]_vars
    /\ \A t \in HbThreads :
          (pc[t] = "dc_lock" /\ ret[t] = "hb_loop") ~> (pc[t] = "hb_loop")

\* C12: whatever a non-empty chunk read from a peer socket holds, the step that
\* reads it and gives it to process_client_message leaves the session record, the
\* sockets, the mutex and the status_changed emissions as they were, and the receive
\* loop is back at its loop test (no exception leaves process_client_message).
C12_InboundContentHarmless ==
    /\ \A m \in Chunks : ProcessClientMessage(m) # "raised"
    /\ [][ \A s \in Socks :
             (last_read'.sock = s)
             => ( /\ pc[Rx(s)] = "rx_recv"
                  /\ pc'[Rx(s)] = "rx_loop"
                  /\ UNCHANGED <<session, sock, lock, signals>> ) ]_vars

\* JSON that is not an object was read from the Connected peer
C12_Witness ==
    \E s \in Socks :
        /\ last_read = Read(s, "non_object")
        /\ connected
        /\ client_socket = s
        /\ pc[Rx(s)] = "rx_loop"

\* C13 (under SpecDiscovery): a failure of accept() other than a timeout, or of the
\* broadcast's sendto, met while server_running is true leaves the loop running:
\* the accept loop is again at accept(), the broadcast loop again at its loop test.
C13_LoopsSurviveErrors ==
    [][ /\ \A t \in AccThreads :
             (server_running /\ AcceptError(t)) => pc'[t] = "acc_loop"
        /\ \A t \in BcThreads :
             (server_running /\ BroadcastError(t)) => pc'[t] = "bc_loop" ]_vars

\* C14 (under SpecDiscovery): a datagram that begins with WIFIKEY_RESPONSE gives
\* device_discovered exactly one descriptor whose ip is the sender's address (the
\* made-up descriptor with the host's TCP port when the rest is empty, not JSON, not
\* UTF-8 or not a JSON object); a datagram without the token gives it nothing; and
\* the listener is back at its loop test in every case.
C14_OneDescriptorPerResponse ==
    [][ \A k \in Listeners : \A d \in Datagrams :
          ListenerDatagram(k, d)
          => ( /\ pc'[Dl(k)] = "dl_loop"
               /\ IF d.kind = "no_token"
                  THEN discovered' = NoDevice
                  ELSE /\ discovered'.count = 1
                       /\ discovered'.ip = d.addr
                       /\ d.kind # "object"
                          => ( /\ discovered'.name = <<"Android Device (", d.addr, ")">>
                               /\ discovered'.port = ServerPort ) ) ]_vars

\* every loop thread has ended or was never started
AllLoopsEnded ==
    \A t \in Threads \ {UI} : pc[t] \in {"off", "done"}

\* C15 (under FairSpecShutdown, where start_server is not called again): once
\* stop_server has cleared server_running, the accept, broadcast, heartbeat,
\* listener and receive loops all end, the listening and discovery sockets are
\* closed and their handles cleared, and the session is Idle.
C15_ShutdownObserved ==
    (starts > 0 /\ ~server_running)
    ~> ( /\ AllLoopsEnded
         /\ server_socket = 0 /\ discovery_socket = 0 /\ lopen = {}
         /\ Idle )

\* C16: when the bind of the TCP listener or of the UDP discovery socket fails,
\* start_server returns False in the same locked step, server_running stays false,
\* no thread is launched, both handles are cleared and no socket made by
\* start_server is left open; the session and the mutex are as before.
C16_BindFailureReleases ==
    [][ StartServerBindFails
        => ( /\ ui_result' = Returned("start_server", "false")
             /\ ~server_running /\ ~server_running'
             /\ server_socket' = 0
             /\ discovery_socket' = 0
             /\ lopen' = {}
             /\ lock = NoThread /\ lock' = NoThread
             /\ UNCHANGED <<pc, starts, session, sock, signals>> ) ]_vars

\* a start that failed after an earlier start and stop
C16_Witness ==
    /\ ui_result = Returned("start_server", "false")
    /\ starts > 0
    /\ ~server_running
    /\ lopen = {}
    /\ server_socket = 0 /\ discovery_socket = 0

\* the steps of thread t that read or write the session record
SessionAccess(t) ==
    \/ DisconnectLocked(t)
    \/ /\ t \in AccThreads
       /\ \/ \E r \in Replies : HandshakeAccepted(ReceiveJson(r)) /\ HandshakeReply(t, r)
          \/ InstallClient(t)
    \/ /\ t \in HbThreads
       /\ (HeartbeatCheck(t) \/ HeartbeatSent(t) \/ HeartbeatFails(t))
    \/ \E s \in Socks : t = Rx(s) /\ ReceiveLoopTest(s)

\* C17: every read and write of the session record is made holding the session
\* mutex: while one thread holds it, no other thread can take a step that reads or
\* writes the installed socket handle, the connected flag, the device name or the
\* address.
C17_SessionAccessUnderMutex ==
    \A t \in Threads :
        (lock # NoThread /\ lock # t) => ~ENABLED SessionAccess(t)

\* positions inside a socket call: send, recv, recvfrom, sendto
InSocketCall(t) ==
    pc[t] \in {"sp_send", "hs_recv", "rx_recv", "hb_send", "bc_send", "dl_recv"}

\* C18: no thread holds the session mutex while it is inside a socket call.
C18_NoSocketCallUnderMutex ==
    \A t \in Threads : lock = t => ~InSocketCall(t)

\* C19 (under SpecStatus): get_status changes nothing and what it returns is the
\* session as it is at one instant: connected is true exactly when a peer socket is
\* installed and the address is set, and connected false comes with device name ""
\* and address None.
C19_StatusSnapshotConsistent ==
    [][ (status' # NoStatus)
        => ( /\ UNCHANGED program
             /\ lock = NoThread
             /\ status'.server_running = server_running
             /\ status'.connected = connected
             /\ status'.device_name = device_name
             /\ status'.connected
                  <=> (client_socket # 0 /\ status'.device_address # 0)
             /\ ~status'.connected
                  => (status'.device_name = "" /\ status'.device_address = 0) ) ]_vars

\* a snapshot taken between the install of a peer and its status_changed emission
C19_Witness ==
    /\ status.connected
    /\ status.device_name = "Pixel"
    /\ status.device_address # 0
    /\ \E t \in AccThreads : pc[t] = "hs_emit"

\* C20: the heartbeat loop never writes to the installed socket while send_packet is
\* inside its own write to that socket.
C20_WritesExclusive ==
    [][ \A t \in HbThreads :
          HeartbeatSent(t) => pc[UI] # "sp_send" ]_vars

\* ================================================================ claims on protocol.py
\* create_packet was called and the frame it returned was given to parse_packet
RoundTripMade ==
    /\ event_data # <<>>
    /\ packet # Raised
    /\ received = packet
    /\ received # NoPacket
    /\ defect = "none"
\* every item of dict e is an item of dict d
Reproduces(d, e) ==
    \A j \in 1..Len(e) : Has(d, e[j][1]) /\ Get(d, e[j][1], Num(0)) = e[j][2]

\* C21: for an event of a supported kind (mouse_move, mouse_click, key_press,
\* key_release, mouse_scroll, control_switch, heartbeat) with valid field values,
\* parse_packet(create_packet(e)) returns an event whose type and fields are those
\* of e; the sequence number is an extra key.
C21_RoundTrip ==
    (RoundTripMade /\ event_data \in SupportedEvents)
        => result.kind = "dict" /\ Reproduces(result.value, event_data)

\* the type code and the payload size of section 6 for an event kind
LayoutCode(kind) ==
    CASE kind = "mouse_move" -> 1
      [] kind = "mouse_click" -> 2
      [] kind \in {"key_press", "key_release"} -> 3
      [] kind = "mouse_scroll" -> 4
      [] kind = "control_switch" -> 7
LayoutKinds ==
    {"mouse_move", "mouse_click", "key_press", "key_release", "mouse_scroll",
     "control_switch"}
\* the size of the payload the parser of a type code consumes
ParserSize(code) ==
    CASE code = 1 -> CalcSize(<<"H", "I", "I", "Q">>)
      [] code = 2 -> CalcSize(<<"H", "I", "I", "I", "B", "B", "Q">>)
      [] code = 3 -> CalcSize(<<"H", "I", "B", "B", "B", "16s", "Q">>)
      [] code = 4 -> CalcSize(<<"H", "I", "I", "H", "H", "H", "Q">>)
      [] code = 7 -> CalcSize(<<"H", "B", "B", "B", "Q">>)
\* create_packet has returned a frame for event_data
Created == event_data # <<>> /\ packet # NoPacket /\ packet # Raised
KindOf(e) == Get(e, "type", Str("")).s

\* C22: create_packet chooses the frame type by the kind of the event: an event of
\* a kind with a layout gets that kind's type code and a payload of the size its
\* parser consumes (mouse_move: type 0x01, 18 bytes of payload, 23 bytes of
\* frame), and only an event of another kind gets a 0xFF JSON frame.
C22_TypeByKind ==
    Created =>
        IF KindOf(event_data) \in LayoutKinds
        THEN /\ packet[3] = LayoutCode(KindOf(event_data))
             /\ Len(packet) = 5 + ParserSize(LayoutCode(KindOf(event_data)))
             /\ KindOf(event_data) = "mouse_move" => Len(packet) = 23
        ELSE KindOf(event_data) = "heartbeat" \/ packet[3] = JsonType

\* C23: an event of a kind with no type code is encoded as a 0xFF frame, and
\* parse_packet on that frame returns a dict equal to the event.
C23_JsonRoundTrip ==
    (RoundTripMade /\ event_data \in UnknownEvents)
        => /\ packet[3] = JsonType
           /\ result.kind = "dict"
           /\ SameDict(result.value, event_data)

\* the sequence number the frame in packet was built with
SequenceUsed == (packet_sequence + SequenceModulus - 1) % SequenceModulus
\* the payload given to build_packet for the frame in packet: the one of
\* create_json_packet for a create_packet call, the one of create_heartbeat_packet
\* otherwise
RawPayload ==
    IF event_data # <<>>
    THEN StructPack(<<"H", "H">>, <<SequenceUsed, Len(JsonDumps(event_data))>>)
         \o JsonDumps(event_data)
    ELSE StructPack(<<"H", "Q">>, <<SequenceUsed, Now>>)
Built == packet # NoPacket /\ packet # Raised
FrameFlag(frame) == BitAnd(frame[3], CompressionFlag) # 0
FramePayload(frame) == SubSeq(frame, 4, Len(frame) - 2)

\* C24: in every frame the encoder makes, bit 7 of the type byte is set exactly
\* when compression is enabled, the raw payload is longer than 64 bytes and its
\* compressed form is strictly shorter; otherwise the payload is the raw payload
\* and the bit is clear.  So the flag parse_packet extracts tells whether the
\* encoder compressed, for every type code.
C24_CompressionGating ==
    Built =>
        /\ FrameFlag(packet) <=> Compresses(RawPayload, compression_enabled)
        /\ ~Compresses(RawPayload, compression_enabled)
               => FramePayload(packet) = RawPayload

\* C25: a frame built by the encoder, with any one of its bits flipped (in the
\* magic, the type byte, the payload or the checksum field), is rejected by
\* parse_packet.
C25_ChecksumSensitivity ==
    defect = "bit_flip" => result = None
\* a frame that parse_packet accepts as built was rejected with a bit of its
\* payload flipped
C25_Witness ==
    /\ defect = "bit_flip"
    /\ ParsePacket(packet).kind = "dict"
    /\ SubSeq(received, 1, 3) = SubSeq(packet, 1, 3)
    /\ LastTwo(received) = LastTwo(packet)
    /\ result = None

\* the sequence number a frame carries in the first two bytes of its payload
EmbeddedSequence(frame) ==
    IF FrameFlag(frame) /\ IsStream(FramePayload(frame))
    THEN FromLittleEndian(SubSeq(ZlibDecompress(FramePayload(frame)), 1, 2))
    ELSE FromLittleEndian(SubSeq(FramePayload(frame), 1, 2))
\* the step is an encode call that returns a frame
EncodeStep == received' = NoPacket /\ packet' # NoPacket /\ packet' # Raised

\* C26: an encode call puts the current value of the counter in the frame and
\* then adds one to the counter modulo 65536; the counter stays in 0..65535.
C26_SequenceMonotone ==
    [][EncodeStep => /\ EmbeddedSequence(packet') = packet_sequence
                     /\ packet_sequence' = (packet_sequence + 1) % 65536
                     /\ packet_sequence' \in 0..65535]_vars
\* the counter has wrapped: the frame built last carries 65535 and the counter is 0
C26_Witness ==
    Built /\ packet_sequence = 0 /\ EmbeddedSequence(packet) = 65535

\* the keys of a dict, and the keys the parser of each kind of record fills in
\* (lines 297-380)
KeysOf(d) == {d[j][1] : j \in 1..Len(d)}
RecordKeys(kind) ==
    CASE kind = "mouse_move" -> {"type", "sequence", "x", "y", "timestamp"}
      [] kind = "mouse_click" ->
             {"type", "sequence", "x", "y", "button", "pressed", "timestamp"}
      [] kind \in {"key_press", "key_release"} ->
             {"type", "sequence", "key_code", "key", "pressed", "modifiers",
              "timestamp"}
      [] kind = "mouse_scroll" ->
             {"type", "sequence", "x", "y", "dx", "dy", "timestamp"}
      [] kind = "control_switch" -> {"type", "sequence", "edge", "timestamp"}
      [] kind = "heartbeat" -> {"type", "sequence", "timestamp"}
      [] OTHER -> {}
Complete(d) ==
    /\ Has(d, "type")
    /\ KeysOf(d) = RecordKeys(Get(d, "type", Str("")).s)
ListedDefects ==
    {"short", "magic", "checksum", "decompress", "unknown_type", "length", "utf8",
     "json", "json_len"}
\* C27: parse_packet never raises and never returns a partial result: for bytes
\* of any kind the result is a complete event record or None, and it is None for
\* input shorter than 5 bytes, a wrong magic, a checksum that does not verify, a
\* flagged payload that does not decompress, an unknown type code, a payload of
\* the wrong length for its type, malformed JSON or UTF-8, and a declared JSON
\* length that disagrees with the bytes present.
C27_ParseTotal ==
    result # NoResult =>
        /\ result.kind # "raised"
        /\ result = None \/ (result.kind = "dict" /\ Complete(result.value))
        /\ defect \in ListedDefects => result = None
\* both outcomes happen: a sound frame gave a record, and a frame sound but for
\* its checksum was rejected
C27_Witness ==
    /\ defect = "checksum"
    /\ result = None
    /\ ParsePacket(WireFrame(HEADER_MAGIC, received[3],
                             SubSeq(received, 4, Len(received) - 2))).kind = "dict"

\* C28: no batch frame that batch_events has produced is longer, as serialized
\* (magic, type, payload and checksum), than max_size.
C28_BatchSizeBound ==
    \A j \in 1..Len(packets) : Len(packets[j]) <= max_size

\* the text of the JSON array of a batch frame: what follows the magic, the type
\* byte, the sequence number and the length, up to the checksum
ArrayText(frame) == SubSeq(frame, 8, Len(frame) - 2)
\* the frames carry, one after the other, the non-empty slices of the input that
\* start at from and end with the input
RECURSIVE Partitions(_, _)
Partitions(frames, from) ==
    IF frames = <<>> THEN from = Len(events) + 1
    ELSE \E to \in from..Len(events) :
            /\ ArrayText(Head(frames)) = JsonDumpsList(SubSeq(events, from, to))
            /\ Partitions(Tail(frames), to + 1)
\* C29: batch_events partitions its input: the event arrays of the returned
\* batch frames are non-empty and, concatenated in order, are the input list, so
\* that every event is whole in exactly one frame; an empty input gives no frame.
C29_BatchPartition ==
    result = BatchReturned =>
        /\ Partitions(packets, 1)
        /\ \A j \in 1..Len(packets) : ArrayText(packets[j]) # JsonDumpsList(<<>>)
        /\ events = <<>> => packets = <<>>
\* three events were returned in two frames
C29_Witness ==
    /\ result = BatchReturned
    /\ Len(events) = 3
    /\ Len(packets) = 2
    /\ Partitions(packets, 1)

\* C30: when the connected peer has sent a control_return message while the host
\* controls the device, control returns to the PC: control_active becomes false.
C30_ControlReturn ==
    (last_read.kind = "control_return" /\ control_active) ~> ~control_active

\* C31: the disconnect a heartbeat loop makes after its send failed (or found no
\* socket) tears down only the session the loop saw: the socket its
\* disconnect_client call closes is not the open socket of a peer installed in
\* the meantime.
C31_HeartbeatDisconnectsOwnSession ==
    [][\A t \in HbThreads :
           (DisconnectLocked(t) /\ client_socket # 0)
               => sock[client_socket] # "open"]_vars

\* C32: the status_changed events agree with the session: whenever every thread
\* is quiescent, the connected argument of the event emitted last equals the
\* connected flag of the session, for every interleaving and every device name,
\* the empty one included.
C32_StatusEventsAgree ==
    Quiescent => last_event.connected = connected

\* C33: once stop_server has returned, and until a later start_server, no peer
\* is installed as Connected, also when a handshake was pending on the accept
\* thread while stop_server ran: with the UI thread back from its call and the
\* server not running, connected is false.
C33_StoppedNotConnected ==
    (pc[UI] = "idle" /\ ~server_running) => ~connected

\* C34: a loop launched by an earlier start_server does not keep operating after
\* a stop_server and a new start_server: the thread that accepts a connection,
\* that passes the heartbeat loop test or that sends a discovery broadcast is the
\* one the latest start_server launched.
C34_LoopsOfLatestStart ==
    [][\A g \in Gens :
           (\/ AcceptConnection(Acc(g))
            \/ HeartbeatCheck(Hb(g))
            \/ BroadcastSent(Bc(g))) => g = starts]_vars

\* C35: batch_events advances the sequence counter by the number of batch frames
\* it returns, and the frames carry consecutive sequence numbers (modulo 65536)
\* that continue from the value the counter had before the call.
C35_BatchSequence ==
    result = BatchReturned =>
        \E start \in SequenceStarts :
            /\ packet_sequence = (start + Len(packets)) % SequenceModulus
            /\ \A j \in 1..Len(packets) :
                   EmbeddedSequence(packets[j]) = (start + j - 1) % SequenceModulus

\* the kind of an event dict
EventKind(e) == Get(e, "type", Str("")).s
MouseKinds == {"mouse_move", "mouse_click", "mouse_scroll"}
\* C36: a mouse_move, mouse_click or mouse_scroll event written to the peer of
\* the session follows a control_switch event written to that same peer:
\* control_active does not carry over from an earlier capture period or session.
C36_SwitchBeforeMouse ==
    [][(last_write'.kind = "packet" /\ EventKind(event_data) \in MouseKinds)
           => last_write'.sock \in switch_sent]_vars

\* the step emits input_event
Emits == input_event' # NoInput /\ input_event' # input_event
\* C37: mouse_move, mouse_click and mouse_scroll are emitted only while capture
\* is active and control_active is true; a move that reaches a screen edge while
\* control_active is false sets control_active and emits one control_switch
\* naming that edge, and no mouse_move; no control_switch is emitted by a move
\* while control_active is true.
C37_EmitsUnderControl ==
    [][/\ (Emits /\ EventKind(input_event') \in MouseKinds)
              => (active /\ control_active /\ control_active')
       /\ (Emits /\ EventKind(input_event') = "control_switch")
              => /\ ~control_active
                 /\ control_active'
                 /\ CheckScreenEdgeSwitch(mouse_call.x, mouse_call.y) # NoEdge
                 /\ input_event' =
                        ControlSwitchEvent(
                            CheckScreenEdgeSwitch(mouse_call.x, mouse_call.y), Now)
       /\ ( /\ mouse_call.kind = "move"
            /\ mouse_call' = NoCall
            /\ CheckScreenEdgeSwitch(mouse_call.x, mouse_call.y) # NoEdge
            /\ ~control_active )
              => /\ control_active'
                 /\ EventKind(input_event') = "control_switch"]_vars

====
